---- MODULE Spec2Model ----
(***************************************************************************)
(* Model of the browser client of imoee_vision: the shared axios instance  *)
(* with its token-refreshing request interceptor (src/api/axios.ts), the   *)
(* auth context (src/context/AuthContext.tsx) and the login page           *)
(* (src/pages/LoginPage.tsx).                                              *)
(*                                                                         *)
(* Execution model.  The page is a single-threaded event loop.  A request  *)
(* issued through the axios instance first runs the request interceptor in *)
(* a promise continuation (a microtask) and is then dispatched to the      *)
(* network; its answer comes back as a new task.  While a microtask is     *)
(* pending no other handler of the page runs, so the only things that can  *)
(* happen between two interceptor runs are the passage of time and a write *)
(* to the shared localStorage by another tab of the same application.      *)
(***************************************************************************)
EXTENDS Integers, Sequences, FiniteSets, TLC

\* ---------------------------------------------------------------- bounds
MaxReq == 2        \* request slots of the page (requests in flight at once)
MaxDepth == 2      \* nested interceptor invocations followed per request
MaxNow == 3540500  \* the clock is followed up to this instant, in milliseconds
TickMs == 500      \* what the clock may advance beyond 59 minutes, in milliseconds
MaxItems == 1      \* ids the server hands out to the records a page creates
MaxCalls == 2      \* API calls of a page in flight at once
MaxAnalisis == 1   \* analyses the server stores
MaxTimers == 3     \* interval timers CameraPreview starts
MaxFetch == 2      \* timer-driven preview requests in flight at once

\* ------------------------------------------------------ program constants
MinuteMs == 60000      \* dayjs().add(1, "minute")
HourMs == 3600000      \* dayjs().add(1, "hour")
SecondMs == 1000       \* dayjs.unix(s) is s * 1000 ms; .unix() is ms / 1000

AccessTokens == {"a1", "a2"}
RefreshTokens == {"r1"}
Profiles == {[username |-> "root", rol_nombre |-> "Super Administrador"],
             [username |-> "op", rol_nombre |-> "Operador"]}
Routes == {"/login", "/"}
LoginErrorMsg == "Usuario o contraseña incorrectos."

Null == <<>>
Bearer(t) == <<"Bearer", t>>

\* ------------------------------------------------------------ conversions
RECURSIVE NumToString(_)
\* Number.prototype.toString(): the decimal digits of a natural number.
NumToString(n) == IF n < 10 THEN <<n>> ELSE Append(NumToString(n \div 10), n % 10)

RECURSIVE ParseInt(_)
\* parseInt(s) of a string of decimal digits.
ParseInt(s) == IF Len(s) = 0 THEN 0
               ELSE 10 * ParseInt(SubSeq(s, 1, Len(s) - 1)) + s[Len(s)]

\* dayjs().add(ms).unix(): whole seconds of a millisecond instant.
Unix(ms) == ms \div SecondMs

\* dayjs.unix(s): the millisecond instant of a Unix timestamp.
FromUnix(s) == s * SecondMs

\* ------------------------------------------------------------ localStorage
Keys == {"accessToken", "refreshToken", "accessTokenExp"}
EmptyStorage == [k \in {} |-> Null]
Has(st, k) == k \in DOMAIN st
SetItem(st, k, v) == [x \in DOMAIN st \cup {k} |-> IF x = k THEN v ELSE st[x]]
RemoveItem(st, k) == [x \in DOMAIN st \ {k} |-> st[x]]

\* ClearTokens that forgets the refresh token.
ClearTokensKeepRefresh(st) ==
    RemoveItem(RemoveItem(st, "accessToken"), "accessTokenExp")

\* The three removeItem calls shared by the interceptor's catch, the
\* session restore's catch and logout.
ClearTokens(st) ==
    RemoveItem(RemoveItem(RemoveItem(st, "accessToken"), "refreshToken"),
               "accessTokenExp")

\* StoreLogin that forgets the refresh token.
StoreLoginNoRefresh(st, access, refresh, t) ==
    SetItem(SetItem(st, "accessToken", access),
            "accessTokenExp", NumToString(Unix(t + HourMs)))

\* What a successful login stores at instant t.
StoreLogin(st, access, refresh, t) ==
    SetItem(SetItem(SetItem(st, "accessToken", access), "refreshToken", refresh),
            "accessTokenExp", NumToString(Unix(t + HourMs)))

\* StoreRefresh that leaves the old expiry in place.
StoreRefreshNoExp(st, access, t) == SetItem(st, "accessToken", access)

\* What a successful refresh stores at instant t.
StoreRefresh(st, access, t) ==
    SetItem(SetItem(st, "accessToken", access),
            "accessTokenExp", NumToString(Unix(t + HourMs)))

VARIABLES
    storage,       \* localStorage of the origin (shared by its tabs)
    defaultsAuth,  \* API.defaults.headers.common.Authorization, or Null
    user,          \* AuthProvider state `user`: Null or <<profile>>
    init,          \* AuthProvider state `init`
    effectRun,     \* the mount effect of AuthProvider has run
    route,         \* location of the BrowserRouter
    loginError,    \* LoginPage state `error`
    reqs,          \* the requests of the page, by slot
    now,           \* the clock, in milliseconds
    lastRefresh    \* history: outcome of the last refresh since the last login

vars == <<storage, defaultsAuth, user, init, effectRun, route, loginError,
          reqs, now, lastRefresh>>

VARIABLES
    page,              \* the page behind the layout that is mounted, or "none"
    items,             \* server: the collection the page manages
    sistema,           \* server: the state of the inference system
    resultados,        \* server: the number of analyses stored
    rows,              \* the page's `rows` / `configuraciones`
    form,              \* the form dialog: `open` / `formOpen`, and `editing`
    swal,              \* the SweetAlert2 popup on screen
    calls,             \* the API calls of the page, by slot
    estadoSistema,     \* AnalisisCoples state: Null or <<status>>
    analisisRecientes, \* AnalisisCoples state: the recent results (their number)
    estadisticas,      \* AnalisisCoples state: Null or <<statistics>>
    loading,           \* `loading` of ConfiguracionesAnalisis / AnalisisCoples
    procesando,        \* AnalisisCoples state `procesando`
    roles,             \* UsuarioForm state `roles`: Null or <<the roles offered>>
    rolesFetch         \* the fetchRoles of the UsuarioForm that is mounted:
                       \* "none", "sent", "ok" or "failed"

pageVars == <<page, items, sistema, resultados, rows, form, swal, calls,
              estadoSistema, analisisRecientes, estadisticas, loading,
              procesando, roles, rolesFetch>>

VARIABLES
    formulario,        \* the form that is open: "configuracion", "usuario" or "none"
    valores,           \* the values of its fields
    isEdit,            \* UsuarioForm prop `isEdit`
    enviado,           \* what its onSubmit prop was called with: Null or <<values>>
    rechazado,         \* the last handleSubmit found errors and shows them
    cuerpo             \* the body of the save request the page made of it: Null or <<body>>

formVars == <<formulario, valores, isEdit, enviado, rechazado, cuerpo>>

VARIABLES
    mounted,           \* a CameraPreview is mounted
    isActive,          \* its prop `isActive`
    refreshInterval,   \* its prop `refreshInterval`, in milliseconds
    effectPending,     \* a render changed the effect's dependencies (or mounted
                       \* or unmounted the component) and React has yet to run
                       \* the cleanup and the effect
    intervalRef,       \* `intervalRef.current`: Null or <<timer id>>
    timers,            \* browser: the interval timers that are running
    nextTimer,         \* browser: the id the next setInterval returns
    previewData,       \* state `previewData`: Null or <<image>>
    previewLoading,    \* state `loading`
    previewError,      \* state `error`: Null or <<message>>
    isStreaming,       \* state `isStreaming`
    fetches            \* the preview requests awaiting their answer, counted by
                       \* who called fetchPreview: the effect or a timer

camVars == <<mounted, isActive, refreshInterval, effectPending, intervalRef,
             timers, nextTimer, previewData, previewLoading, previewError,
             isStreaming, fetches>>

allVars == <<vars, pageVars, formVars, camVars>>

\* ---------------------------------------------------------------- requests
\* kind: who awaits the request.  phase: "icpt" the interceptor of the
\* innermost request is about to run; "net" it is on the network.  stack: the interceptor invocations that await a nested
\* token/refresh/ call, outermost first, each with the values it read from
\* localStorage; the innermost request is a refresh call iff the stack is not
\* empty.  hdr: the Authorization header the innermost request is on the
\* network with.  wrote: history of the requests of login(), login() has
\* stored the tokens it got and set the default header with them.
Idle == [kind |-> "idle", phase |-> "idle", stack |-> <<>>, hdr |-> Null,
         wrote |-> FALSE]
NewRequest(kind) == [Idle EXCEPT !.kind = kind, !.phase = "icpt"]

Slots == 1..MaxReq
FreeSlots == {i \in Slots : reqs[i].kind = "idle"}
FirstFree == CHOOSE i \in FreeSlots : \A j \in FreeSlots : i <= j

\* A promise continuation is pending: the page runs nothing else.
MicrotaskPending == \E i \in Slots : reqs[i].phase = "icpt"

\* -------------------------------------------------- the request interceptor
\* ShouldRefresh that also refreshes with exactly one minute left.
ShouldRefreshAtBoundary(st, t) ==
    /\ Has(st, "accessToken") /\ Has(st, "accessTokenExp")
    /\ t + MinuteMs >= FromUnix(ParseInt(st["accessTokenExp"]))
    /\ Has(st, "refreshToken")

\* Lines 17-20 of the interceptor: a refresh is called for.
ShouldRefresh(st, t) ==
    /\ Has(st, "accessToken") /\ Has(st, "accessTokenExp")
    /\ t + MinuteMs > FromUnix(ParseInt(st["accessTokenExp"]))
    /\ Has(st, "refreshToken")

\* InterceptorHeader that never injects the stored token.
InterceptorHeaderDefaults(st, dflt) == dflt

\* The Authorization header of a request that needs no refresh: the stored
\* access token when token and expiry are stored (lines 43-45), else whatever
\* the instance defaults carry (line 48 leaves the merged config alone).
InterceptorHeader(st, dflt) ==
    IF Has(st, "accessToken") /\ Has(st, "accessTokenExp")
    THEN Bearer(st["accessToken"])
    ELSE dflt

\* Interceptor that makes no refresh call while another request has one open.
InterceptorCoordinated(i) ==
    /\ reqs[i].phase = "icpt"
    /\ IF ShouldRefresh(storage, now)
          /\ ~\E j \in Slots \ {i} : reqs[j].stack # <<>>
       THEN /\ Len(reqs[i].stack) < MaxDepth
            /\ reqs' = [reqs EXCEPT ![i].stack =
                           Append(@, [access |-> storage["accessToken"],
                                      refresh |-> storage["refreshToken"]])]
       ELSE reqs' = [reqs EXCEPT ![i].phase = "net",
                                 ![i].hdr = InterceptorHeader(storage, defaultsAuth)]
    /\ UNCHANGED <<storage, defaultsAuth, user, init, effectRun, route,
                   loginError, now, lastRefresh>>

\* One run of the interceptor, for the innermost request of slot i.  The
\* refresh call is made through the same axios instance, so it becomes the new
\* innermost request and the interceptor runs for it in turn.
Interceptor(i) ==
    /\ reqs[i].phase = "icpt"
    /\ IF ShouldRefresh(storage, now)
       THEN /\ Len(reqs[i].stack) < MaxDepth
            /\ reqs' = [reqs EXCEPT ![i].stack =
                           Append(@, [access |-> storage["accessToken"],
                                      refresh |-> storage["refreshToken"]])]
       ELSE reqs' = [reqs EXCEPT ![i].phase = "net",
                                 ![i].hdr = InterceptorHeader(storage, defaultsAuth)]
    /\ UNCHANGED <<storage, defaultsAuth, user, init, effectRun, route,
                   loginError, now, lastRefresh>>

\* The refresh call was answered with a new access token (lines 26-34): the interceptor that made
\* it stores the new token and lets its own request go with it.
RefreshSucceeded(i, access) ==
    /\ ~MicrotaskPending
    /\ reqs[i].phase = "net" /\ reqs[i].stack # <<>>
    /\ storage' = StoreRefresh(storage, access, now)
    /\ reqs' = [reqs EXCEPT ![i].stack = SubSeq(@, 1, Len(@) - 1),
                            ![i].phase = "net",
                            ![i].hdr = Bearer(access)]
    /\ lastRefresh' = "succeeded"
    /\ UNCHANGED <<defaultsAuth, user, init, effectRun, route, loginError, now>>

\* The refresh call failed (lines 35-45): the catch removes the
\* three keys, and control falls through to the injection of the access token
\* read at line 13.
RefreshRejected(i) ==
    /\ ~MicrotaskPending
    /\ reqs[i].phase = "net" /\ reqs[i].stack # <<>>
    /\ storage' = ClearTokens(storage)
    /\ reqs' = [reqs EXCEPT ![i].stack = SubSeq(@, 1, Len(@) - 1),
                            ![i].phase = "net",
                            ![i].hdr = Bearer(reqs[i].stack[Len(reqs[i].stack)].access)]
    /\ lastRefresh' = "failed"
    /\ UNCHANGED <<defaultsAuth, user, init, effectRun, route, loginError,
                   now>>

\* ------------------------------------------------------------ AuthProvider
\* RestoreSession that lets the children render while users/me/ is pending.
RestoreSessionNoWait ==
    /\ ~effectRun /\ ~MicrotaskPending
    /\ effectRun' = TRUE
    /\ init' = FALSE
    /\ IF Has(storage, "accessToken")
       THEN /\ defaultsAuth' = Bearer(storage["accessToken"])
            /\ reqs' = [reqs EXCEPT ![FirstFree] = NewRequest("me_init")]
       ELSE UNCHANGED <<defaultsAuth, reqs>>
    /\ UNCHANGED <<storage, user, route, loginError, now, lastRefresh>>

\* The mount effect: restore the session from localStorage.
RestoreSession ==
    /\ ~effectRun /\ ~MicrotaskPending
    /\ effectRun' = TRUE
    /\ IF Has(storage, "accessToken")
       THEN /\ defaultsAuth' = Bearer(storage["accessToken"])
            /\ reqs' = [reqs EXCEPT ![FirstFree] = NewRequest("me_init")]
            /\ init' = init
       ELSE /\ init' = FALSE
            /\ UNCHANGED <<defaultsAuth, reqs>>
    /\ UNCHANGED <<storage, user, route, loginError, now, lastRefresh>>

\* users/me/ of the mount effect answered with the profile.
RestoreSucceeded(i, profile) ==
    /\ ~MicrotaskPending
    /\ reqs[i].kind = "me_init" /\ reqs[i].phase = "net" /\ reqs[i].stack = <<>>
    /\ user' = <<profile>>
    /\ init' = FALSE
    /\ reqs' = [reqs EXCEPT ![i] = Idle]
    /\ UNCHANGED <<storage, defaultsAuth, effectRun, route, loginError, now,
                   lastRefresh>>

\* users/me/ of the mount effect failed: the catch removes the three keys.
RestoreRejected(i) ==
    /\ ~MicrotaskPending
    /\ reqs[i].kind = "me_init" /\ reqs[i].phase = "net" /\ reqs[i].stack = <<>>
    /\ storage' = ClearTokens(storage)
    /\ init' = FALSE
    /\ reqs' = [reqs EXCEPT ![i] = Idle]
    /\ UNCHANGED <<defaultsAuth, user, effectRun, route, loginError, now,
                   lastRefresh>>

\* The children are rendered and the page is free to run a handler.
PageReady == ~init /\ ~MicrotaskPending

\* LoginPage.handleLogin up to the first await of login(): the error is reset
\* and the token request is issued.
LoginSubmit ==
    /\ PageReady /\ route = "/login" /\ FreeSlots # {}
    /\ loginError' = ""
    /\ reqs' = [reqs EXCEPT ![FirstFree] = NewRequest("token")]
    /\ UNCHANGED <<storage, defaultsAuth, user, init, effectRun, route, now,
                   lastRefresh>>

\* token/ answered: store the tokens and the expiry, set the default header,
\* ask for the profile.
TokenSucceeded(i, access, refresh) ==
    /\ ~MicrotaskPending
    /\ reqs[i].kind = "token" /\ reqs[i].phase = "net" /\ reqs[i].stack = <<>>
    /\ storage' = StoreLogin(storage, access, refresh, now)
    /\ defaultsAuth' = Bearer(access)
    /\ reqs' = [reqs EXCEPT ![i] =
                   [NewRequest("me_login") EXCEPT !.wrote = TRUE]]
    /\ lastRefresh' = "none"
    /\ UNCHANGED <<user, init, effectRun, route, loginError, now>>

\* LoginRejected with the error swallowed inside login(): handleLogin goes on
\* to navigate home and shows nothing.
LoginRejectedSwallowed(i) ==
    /\ ~MicrotaskPending
    /\ reqs[i].kind \in {"token", "me_login"} /\ reqs[i].phase = "net"
    /\ reqs[i].stack = <<>>
    /\ route' = "/"
    /\ reqs' = [reqs EXCEPT ![i] = Idle]
    /\ UNCHANGED <<storage, defaultsAuth, user, init, effectRun, loginError,
                   now, lastRefresh>>

\* token/ or users/me/ of login() failed: login rethrows and handleLogin's
\* catch sets the error text.
LoginRejected(i) ==
    /\ ~MicrotaskPending
    /\ reqs[i].kind \in {"token", "me_login"} /\ reqs[i].phase = "net"
    /\ reqs[i].stack = <<>>
    /\ loginError' = LoginErrorMsg
    /\ reqs' = [reqs EXCEPT ![i] = Idle]
    /\ UNCHANGED <<storage, defaultsAuth, user, init, effectRun, route, now,
                   lastRefresh>>

\* users/me/ of login() answered: set the user, navigate home (login and
\* then handleLogin both navigate to "/").
LoginSucceeded(i, profile) ==
    /\ ~MicrotaskPending
    /\ reqs[i].kind = "me_login" /\ reqs[i].phase = "net" /\ reqs[i].stack = <<>>
    /\ user' = <<profile>>
    /\ route' = "/"
    /\ reqs' = [reqs EXCEPT ![i] = Idle]
    /\ UNCHANGED <<storage, defaultsAuth, init, effectRun, loginError, now,
                   lastRefresh>>

\* Logout that leaves the default Authorization header in place.
LogoutKeepsHeader ==
    /\ PageReady /\ route # "/login"
    /\ storage' = ClearTokens(storage)
    /\ user' = Null
    /\ route' = "/login"
    /\ UNCHANGED <<defaultsAuth, init, effectRun, loginError, reqs, now,
                   lastRefresh>>

\* logout(), reachable from the pages behind the layout (LoginPage does not
\* use it).
Logout ==
    /\ PageReady /\ route # "/login"
    /\ storage' = ClearTokens(storage)
    /\ defaultsAuth' = Null
    /\ user' = Null
    /\ route' = "/login"
    /\ UNCHANGED <<init, effectRun, loginError, reqs, now, lastRefresh>>

\* ------------------------------------------------------------- environment
\* A page handler issues n requests in one go (the dashboard issues three
\* with Promise.all); their interceptors run before anything else of the page.
RECURSIVE Issue(_, _)
Issue(rs, n) ==
    IF n = 0 THEN rs
    ELSE LET free == {i \in Slots : rs[i].kind = "idle"}
             first == CHOOSE i \in free : \A j \in free : i <= j
         IN Issue([rs EXCEPT ![first] = NewRequest("data")], n - 1)

IssueData(n) ==
    /\ PageReady /\ route # "/login"
    /\ n <= Cardinality(FreeSlots)
    /\ reqs' = Issue(reqs, n)
    /\ UNCHANGED <<storage, defaultsAuth, user, init, effectRun, route,
                   loginError, now, lastRefresh>>

\* The page consumes the answer of a data request.
DataDone(i) ==
    /\ ~MicrotaskPending
    /\ reqs[i].kind = "data" /\ reqs[i].phase = "net" /\ reqs[i].stack = <<>>
    /\ reqs' = [reqs EXCEPT ![i] = Idle]
    /\ UNCHANGED <<storage, defaultsAuth, user, init, effectRun, route,
                   loginError, now, lastRefresh>>

\* Another tab of the application logs out: the three keys leave the shared
\* localStorage; nothing of this page's memory changes.
OtherTabLogout ==
    /\ storage # EmptyStorage
    /\ storage' = ClearTokens(storage)
    /\ UNCHANGED <<defaultsAuth, user, init, effectRun, route, loginError,
                   reqs, now, lastRefresh>>

\* Time passes.
ClockSteps == {HourMs - MinuteMs, HourMs - MinuteMs + TickMs}
Tick(d) ==
    /\ now + d <= MaxNow
    /\ now' = now + d
    /\ UNCHANGED <<storage, defaultsAuth, user, init, effectRun, route,
                   loginError, reqs, lastRefresh>>

\* ------------------------------------------------------------------- pages
\* The pages behind the layout that call the API: Usuarios, Roles,
\* ConfiguracionesAnalisis (the CRUD pages) and AnalisisCoples (the
\* dashboard).  One of them is mounted; its mount effect has issued the first
\* load.  The server is a collection of records and the state of the
\* inference system; it answers each call with a snapshot taken when it
\* handles the call, and the page gets the answer later, in any order.
CrudPages == {"usuarios", "roles", "configuraciones"}
Pages == CrudPages \cup {"analisis"}
PagePath(p) ==
    CASE p = "usuarios" -> "/usuarios"
      [] p = "roles" -> "/roles"
      [] p = "configuraciones" -> "/analisis/configuraciones"
      [] p = "analisis" -> "/analisis"

Ids == 1..MaxItems
FormNombres == {"Supervisor"}
Item(i, n, a) == [id |-> i, rol_nombre |-> n, activa |-> a]

\* Visible that shows every user.
VisibleAll(p, data) == data

\* The rows a page shows for a list answer: Usuarios filters the Super
\* Administrador users out, Roles and ConfiguracionesAnalisis show the answer.
Visible(p, data) ==
    IF p = "usuarios"
    THEN {u \in data : u.rol_nombre # "Super Administrador"}
    ELSE data

\* SweetAlert2: one popup at a time; a new one replaces the one on screen.
NoSwal == [icon |-> "none", id |-> 0]
SwalFire(icon) == [icon |-> icon, id |-> 0]
SwalConfirm(id) == [icon |-> "warning", id |-> id]

FormClosed == [open |-> FALSE, editing |-> 0]

\* An API call of the page.  res[k] and data[k]: the state ("sent", "ok") and
\* the answer of its k-th request (cargarDatos makes three with Promise.all,
\* every other call one).  after: the handler that awaits a cargarDatos.
\* clean: history of a list call, the server's collection has not changed
\* since the server answered it.  older: history of a list call, the slots of
\* the list calls made before it that still wait.  overtaken: history of a
\* list call, a list call made after it has been answered and shown.
NoCall == [op |-> "idle", id |-> 0, val |-> "", res |-> <<>>, data |-> <<>>,
           after |-> "", clean |-> FALSE, older |-> {}, overtaken |-> FALSE]
NParts(op) == IF op = "cargarDatos" THEN 3 ELSE 1
NewCall(op, id, val, after, clean) ==
    [op |-> op, id |-> id, val |-> val,
     res |-> [k \in 1..NParts(op) |-> "sent"],
     data |-> [k \in 1..NParts(op) |-> Null],
     after |-> after, clean |-> clean, older |-> {}, overtaken |-> FALSE]

CallSlots == 1..MaxCalls
FreeCalls == {i \in CallSlots : calls[i].op = "idle"}
FirstFreeCall == CHOOSE i \in FreeCalls : \A j \in FreeCalls : i <= j
InFlight(ops) == \E i \in CallSlots : calls[i].op \in ops

\* Promise semantics: resolved when every request was answered, rejected as
\* soon as one fails (the answers of the others are then ignored).
Resolved(c) == c.op # "idle" /\ \A k \in 1..Len(c.res) : c.res[k] = "ok"
Pending(c) == \E k \in 1..Len(c.res) : c.res[k] = "sent"

\* ------------------------------------------------------------------ server
Mutations == {"create", "update", "delete", "activate"}
UsedIds == {x.id : x \in items}
NextId == CHOOSE i \in Ids \ UsedIds : \A j \in Ids \ UsedIds : i <= j

\* The server can carry the call out.
ServerAccepts(c) ==
    CASE c.op = "create" -> Ids \ UsedIds # {}
      [] c.op \in {"update", "delete", "activate"} -> c.id \in UsedIds
      [] c.op = "realizarAnalisis" -> sistema.inicializado /\ resultados < MaxAnalisis
      [] c.op = "inicializar" -> sistema.configuracion_activa
      [] OTHER -> TRUE

ItemsAfter(c) ==
    CASE c.op = "create" -> items \cup {Item(NextId, c.val, FALSE)}
      [] c.op = "update" ->
            {IF x.id = c.id THEN [x EXCEPT !.rol_nombre = c.val] ELSE x : x \in items}
      [] c.op = "delete" -> {x \in items : x.id # c.id}
      [] c.op = "activate" -> {[x EXCEPT !.activa = (x.id = c.id)] : x \in items}
      [] OTHER -> items

SistemaAfter(c) ==
    CASE c.op = "inicializar" -> [sistema EXCEPT !.inicializado = TRUE]
      [] c.op = "liberar" -> [sistema EXCEPT !.inicializado = FALSE]
      [] OTHER -> sistema

\* The body of the answer to request k of call c.
Answer(c, k, vacio) ==
    CASE c.op = "list" -> items
      [] c.op = "cargarDatos" ->
            IF k = 1 THEN sistema ELSE resultados
      [] c.op = "realizarAnalisis" -> IF vacio THEN "sin_analisis" ELSE "analisis"
      [] OTHER -> "ok"

\* The server handles request k of call i and answers it; `vacio`: realizar
\* analisis answers 200 without an `analisis` and stores nothing.  (A request
\* that fails is the page's step: the rejection is all the page sees.)
Serve(i, k, vacio) ==
    LET c == calls[i]
    IN  /\ c.op # "idle" /\ k \in 1..Len(c.res) /\ c.res[k] = "sent"
        /\ vacio => c.op = "realizarAnalisis"
        /\ vacio \/ ServerAccepts(c)
        /\ items' = IF vacio THEN items ELSE ItemsAfter(c)
        /\ sistema' = IF vacio THEN sistema ELSE SistemaAfter(c)
        /\ resultados' = IF ~vacio /\ c.op = "realizarAnalisis"
                         THEN resultados + 1 ELSE resultados
        /\ calls' =
             [j \in CallSlots |->
                IF j = i
                THEN [c EXCEPT !.res[k] = "ok",
                               !.data[k] = <<Answer(c, k, vacio)>>,
                               !.clean = (c.op = "list")]
                ELSE IF c.op \in Mutations
                     THEN [calls[j] EXCEPT !.clean = FALSE]
                     ELSE calls[j]]
        /\ UNCHANGED <<page, rows, form, swal, estadoSistema, analisisRecientes,
                       estadisticas, loading, procesando>>
        /\ UNCHANGED <<vars, formVars, camVars, roles, rolesFetch>>

\* ------------------------------------------------------ CRUD page handlers
\* No popup covers the page and it does not show its spinner.
PageClickable == swal.icon = "none" /\ ~loading
\* ... and the form dialog does not cover the grid.
GridClickable == PageClickable /\ ~form.open

\* load() / cargarConfiguraciones() up to its await, issued from the
\* continuation of call i: the list request, and the spinner of
\* ConfiguracionesAnalisis.
Reload(i) ==
    /\ calls' = [calls EXCEPT ![i] =
                    [NewCall("list", 0, "", "", FALSE) EXCEPT !.older =
                        {j \in CallSlots \ {i} : calls[j].op = "list"}]]
    /\ loading' = (page = "configuraciones")

\* RolesOffered that keeps every role.
RolesOfferedAll(data) == data

\* The roles UsuarioForm keeps of the answer of fetchRoles (line 40).
RolesOffered(data) == {r \in data : r.rol_nombre # "Super Administrador"}

\* The roles the server may hold.
ServerRoles == {[id |-> 1, rol_nombre |-> "Super Administrador"],
                [id |-> 2, rol_nombre |-> "Operador"]}

\* The dialog opens: on the Users page a UsuarioForm is mounted, with no
\* roles yet, and its effect calls fetchRoles.
MountUsuarioForm ==
    IF page = "usuarios"
    THEN roles' = Null /\ rolesFetch' = "sent"
    ELSE UNCHANGED <<roles, rolesFetch>>

\* fetchRoles of the mounted UsuarioForm was answered with `data`.
RolesAnswered(data) ==
    /\ rolesFetch = "sent"
    /\ roles' = <<RolesOffered(data)>>
    /\ rolesFetch' = "ok"
    /\ UNCHANGED <<page, items, sistema, resultados, rows, form, swal, calls,
                   estadoSistema, analisisRecientes, estadisticas, loading,
                   procesando>>
    /\ UNCHANGED <<vars, formVars, camVars>>

\* fetchRoles failed: the catch offers no roles.
RolesFailed ==
    /\ rolesFetch = "sent"
    /\ roles' = <<{}>>
    /\ rolesFetch' = "failed"
    /\ UNCHANGED <<page, items, sistema, resultados, rows, form, swal, calls,
                   estadoSistema, analisisRecientes, estadisticas, loading,
                   procesando>>
    /\ UNCHANGED <<vars, formVars, camVars>>

ClickNuevo ==
    /\ page \in CrudPages /\ GridClickable
    /\ form' = [open |-> TRUE, editing |-> 0]
    /\ MountUsuarioForm
    /\ UNCHANGED <<page, items, sistema, resultados, rows, swal, calls,
                   estadoSistema, analisisRecientes, estadisticas, loading,
                   procesando>>
    /\ UNCHANGED <<vars, formVars, camVars>>

ClickEditar(id) ==
    /\ page \in CrudPages /\ GridClickable
    /\ \E row \in rows : row.id = id
    /\ form' = [open |-> TRUE, editing |-> id]
    /\ MountUsuarioForm
    /\ UNCHANGED <<page, items, sistema, resultados, rows, swal, calls,
                   estadoSistema, analisisRecientes, estadisticas, loading,
                   procesando>>
    /\ UNCHANGED <<vars, formVars, camVars>>

CloseForm ==
    /\ page \in CrudPages /\ PageClickable /\ form.open
    /\ form' = FormClosed
    /\ roles' = Null /\ rolesFetch' = "none"
    /\ UNCHANGED <<page, items, sistema, resultados, rows, swal, calls,
                   estadoSistema, analisisRecientes, estadisticas, loading,
                   procesando>>
    /\ UNCHANGED <<vars, formVars, camVars>>

\* handleSave / handleFormSubmit up to the await: update the row being edited,
\* else create.  ConfiguracionForm disables its submit button while a save is
\* pending (formLoading); UsuarioForm shows a spinner in place of its fields
\* until its roles are set.
SubmitForm(val) ==
    /\ page \in CrudPages /\ PageClickable /\ form.open
    /\ page = "usuarios" => roles # Null
    /\ FreeCalls # {}
    /\ page = "configuraciones" => ~InFlight({"create", "update"})
    /\ calls' = [calls EXCEPT ![FirstFreeCall] =
                    IF form.editing # 0
                    THEN NewCall("update", form.editing, val, "", FALSE)
                    ELSE NewCall("create", 0, val, "", FALSE)]
    /\ UNCHANGED <<page, items, sistema, resultados, rows, form, swal,
                   estadoSistema, analisisRecientes, estadisticas, loading,
                   procesando>>
    /\ UNCHANGED <<vars, formVars, camVars, roles, rolesFetch>>

\* The save was answered: close the dialog, reload the list.
SaveSucceeded(i) ==
    /\ calls[i].op \in {"create", "update"} /\ Resolved(calls[i])
    /\ IF page = "configuraciones"
       THEN /\ swal' = SwalFire("success")
            /\ form' = [form EXCEPT !.open = FALSE]
       ELSE /\ swal' = swal
            /\ form' = FormClosed
    /\ Reload(i)
    /\ roles' = Null /\ rolesFetch' = "none"
    /\ UNCHANGED <<page, items, sistema, resultados, rows, estadoSistema,
                   analisisRecientes, estadisticas, procesando>>
    /\ UNCHANGED <<vars, formVars, camVars>>

\* The save failed: the catch shows the error.
SaveFailed(i) ==
    /\ calls[i].op \in {"create", "update"} /\ Pending(calls[i])
    /\ swal' = SwalFire("error")
    /\ calls' = [calls EXCEPT ![i] = NoCall]
    /\ UNCHANGED <<page, items, sistema, resultados, rows, form, estadoSistema,
                   analisisRecientes, estadisticas, loading, procesando>>
    /\ UNCHANGED <<vars, formVars, camVars, roles, rolesFetch>>

\* ClickBorrar that calls the delete endpoint without asking.
ClickBorrarSinConfirmar(id) ==
    /\ page \in CrudPages /\ GridClickable
    /\ \E row \in rows : row.id = id
    /\ FreeCalls # {}
    /\ calls' = [calls EXCEPT ![FirstFreeCall] =
                    NewCall("delete", id, "", "", FALSE)]
    /\ UNCHANGED <<page, items, sistema, resultados, rows, form, swal,
                   estadoSistema, analisisRecientes, estadisticas, loading,
                   procesando>>
    /\ UNCHANGED <<vars, formVars, camVars, roles, rolesFetch>>

\* "Borrar": the confirmation popup for the row.
ClickBorrar(id) ==
    /\ page \in CrudPages /\ GridClickable
    /\ \E row \in rows : row.id = id
    /\ swal' = SwalConfirm(id)
    /\ UNCHANGED <<page, items, sistema, resultados, rows, form, calls,
                   estadoSistema, analisisRecientes, estadisticas, loading,
                   procesando>>
    /\ UNCHANGED <<vars, formVars, camVars, roles, rolesFetch>>

\* The popup was answered with "Sí, eliminar": the delete call.
ConfirmYes ==
    /\ swal.icon = "warning" /\ FreeCalls # {}
    /\ swal' = NoSwal
    /\ calls' = [calls EXCEPT ![FirstFreeCall] =
                    NewCall("delete", swal.id, "", "", FALSE)]
    /\ UNCHANGED <<page, items, sistema, resultados, rows, form, estadoSistema,
                   analisisRecientes, estadisticas, loading, procesando>>
    /\ UNCHANGED <<vars, formVars, camVars, roles, rolesFetch>>

\* The popup was cancelled or dismissed.
ConfirmNo ==
    /\ swal.icon = "warning"
    /\ swal' = NoSwal
    /\ UNCHANGED <<page, items, sistema, resultados, rows, form, calls,
                   estadoSistema, analisisRecientes, estadisticas, loading,
                   procesando>>
    /\ UNCHANGED <<vars, formVars, camVars, roles, rolesFetch>>

\* An error or success popup is closed (by the user or by its timer).
CloseSwal ==
    /\ swal.icon \in {"error", "success"}
    /\ swal' = NoSwal
    /\ UNCHANGED <<page, items, sistema, resultados, rows, form, calls,
                   estadoSistema, analisisRecientes, estadisticas, loading,
                   procesando>>
    /\ UNCHANGED <<vars, formVars, camVars, roles, rolesFetch>>

\* The delete was answered: reload the list (ConfiguracionesAnalisis also
\* says so).
DeleteSucceeded(i) ==
    /\ calls[i].op = "delete" /\ Resolved(calls[i])
    /\ swal' = IF page = "configuraciones" THEN SwalFire("success") ELSE swal
    /\ Reload(i)
    /\ UNCHANGED <<page, items, sistema, resultados, rows, form, estadoSistema,
                   analisisRecientes, estadisticas, procesando>>
    /\ UNCHANGED <<vars, formVars, camVars, roles, rolesFetch>>

\* The delete failed.  handleDeleteConfig catches and shows the error;
\* deleteUsuario(row.id).then(load) and deleteRole(...).then(load) have no
\* catch: the rejection goes unhandled.
DeleteFailed(i) ==
    /\ calls[i].op = "delete" /\ Pending(calls[i])
    /\ swal' = IF page = "configuraciones" THEN SwalFire("error") ELSE swal
    /\ calls' = [calls EXCEPT ![i] = NoCall]
    /\ UNCHANGED <<page, items, sistema, resultados, rows, form, estadoSistema,
                   analisisRecientes, estadisticas, loading, procesando>>
    /\ UNCHANGED <<vars, formVars, camVars, roles, rolesFetch>>

\* handleActivateConfig up to the await (shown for the rows not active).
ClickActivar(id) ==
    /\ page = "configuraciones" /\ GridClickable
    /\ \E row \in rows : row.id = id /\ ~row.activa
    /\ FreeCalls # {}
    /\ calls' = [calls EXCEPT ![FirstFreeCall] =
                    NewCall("activate", id, "", "", FALSE)]
    /\ UNCHANGED <<page, items, sistema, resultados, rows, form, swal,
                   estadoSistema, analisisRecientes, estadisticas, loading,
                   procesando>>
    /\ UNCHANGED <<vars, formVars, camVars, roles, rolesFetch>>

ActivateSucceeded(i) ==
    /\ calls[i].op = "activate" /\ Resolved(calls[i])
    /\ swal' = SwalFire("success")
    /\ Reload(i)
    /\ UNCHANGED <<page, items, sistema, resultados, rows, form, estadoSistema,
                   analisisRecientes, estadisticas, procesando>>
    /\ UNCHANGED <<vars, formVars, camVars, roles, rolesFetch>>

ActivateFailed(i) ==
    /\ calls[i].op = "activate" /\ Pending(calls[i])
    /\ swal' = SwalFire("error")
    /\ calls' = [calls EXCEPT ![i] = NoCall]
    /\ UNCHANGED <<page, items, sistema, resultados, rows, form, estadoSistema,
                   analisisRecientes, estadisticas, loading, procesando>>
    /\ UNCHANGED <<vars, formVars, camVars, roles, rolesFetch>>

\* The list was answered: show it.
ListSucceeded(i) ==
    /\ calls[i].op = "list" /\ Resolved(calls[i])
    /\ rows' = Visible(page, calls[i].data[1][1])
    /\ loading' = FALSE
    /\ calls' = [j \in CallSlots |->
                    IF j = i THEN NoCall
                    ELSE [calls[j] EXCEPT !.older = @ \ {i},
                                          !.overtaken = @ \/ j \in calls[i].older]]
    /\ UNCHANGED <<page, items, sistema, resultados, form, swal, estadoSistema,
                   analisisRecientes, estadisticas, procesando>>
    /\ UNCHANGED <<vars, formVars, camVars, roles, rolesFetch>>

\* The list failed: the catch shows the error, the rows stay.
ListFailed(i) ==
    /\ calls[i].op = "list" /\ Pending(calls[i])
    /\ swal' = SwalFire("error")
    /\ loading' = FALSE
    /\ calls' = [j \in CallSlots |->
                    IF j = i THEN NoCall ELSE [calls[j] EXCEPT !.older = @ \ {i}]]
    /\ UNCHANGED <<page, items, sistema, resultados, rows, form, estadoSistema,
                   analisisRecientes, estadisticas, procesando>>
    /\ UNCHANGED <<vars, formVars, camVars, roles, rolesFetch>>

\* ------------------------------------------------------ dashboard handlers
\* estadoSistema?.inicializado
Inicializado(estado) == estado # Null /\ estado[1].inicializado

\* cargarDatos() up to its await, issued in slot i: the three requests of
\* Promise.all and the spinner.
CargarDatos(i, after) ==
    /\ calls' = [calls EXCEPT ![i] = NewCall("cargarDatos", 0, "", after, FALSE)]
    /\ loading' = TRUE

\* "Actualizar".
ClickActualizar ==
    /\ page = "analisis" /\ PageClickable /\ FreeCalls # {}
    /\ CargarDatos(FirstFreeCall, "")
    /\ UNCHANGED <<page, items, sistema, resultados, rows, form, swal,
                   estadoSistema, analisisRecientes, estadisticas, procesando>>
    /\ UNCHANGED <<vars, formVars, camVars, roles, rolesFetch>>

\* AnalizarDisabled that only looks at the system status.
AnalizarDisabledSinProcesando == ~Inicializado(estadoSistema)

\* disabled={procesando || !estadoSistema?.inicializado}
AnalizarDisabled == procesando \/ ~Inicializado(estadoSistema)

\* "Iniciar Análisis": handleRealizarAnalisis up to the await.
ClickAnalizar ==
    /\ page = "analisis" /\ PageClickable /\ FreeCalls # {}
    /\ ~AnalizarDisabled
    /\ procesando' = TRUE
    /\ calls' = [calls EXCEPT ![FirstFreeCall] =
                    NewCall("realizarAnalisis", 0, "", "", FALSE)]
    /\ UNCHANGED <<page, items, sistema, resultados, rows, form, swal,
                   estadoSistema, analisisRecientes, estadisticas, loading>>
    /\ UNCHANGED <<vars, formVars, camVars, roles, rolesFetch>>

\* The analysis was answered: with an `analisis`, say so and reload (the
\* handler awaits the reload); without one, only the finally runs.
AnalisisSucceeded(i) ==
    /\ calls[i].op = "realizarAnalisis" /\ Resolved(calls[i])
    /\ IF calls[i].data[1][1] = "analisis"
       THEN /\ swal' = SwalFire("success")
            /\ CargarDatos(i, "realizarAnalisis")
            /\ procesando' = procesando
       ELSE /\ calls' = [calls EXCEPT ![i] = NoCall]
            /\ procesando' = FALSE
            /\ UNCHANGED <<swal, loading>>
    /\ UNCHANGED <<page, items, sistema, resultados, rows, form, estadoSistema,
                   analisisRecientes, estadisticas>>
    /\ UNCHANGED <<vars, formVars, camVars, roles, rolesFetch>>

AnalisisFailed(i) ==
    /\ calls[i].op = "realizarAnalisis" /\ Pending(calls[i])
    /\ swal' = SwalFire("error")
    /\ procesando' = FALSE
    /\ calls' = [calls EXCEPT ![i] = NoCall]
    /\ UNCHANGED <<page, items, sistema, resultados, rows, form, estadoSistema,
                   analisisRecientes, estadisticas, loading>>
    /\ UNCHANGED <<vars, formVars, camVars, roles, rolesFetch>>

\* "Inicializar" (shown while the status is not inicializado): without an
\* active configuration in the last status an error and no call.
ClickInicializar ==
    /\ page = "analisis" /\ PageClickable
    /\ ~Inicializado(estadoSistema)
    /\ IF estadoSistema = Null \/ ~estadoSistema[1].configuracion_activa
       THEN /\ swal' = SwalFire("error")
            /\ calls' = calls
       ELSE /\ FreeCalls # {}
            /\ swal' = swal
            /\ calls' = [calls EXCEPT ![FirstFreeCall] =
                            NewCall("inicializar", 0, "", "", FALSE)]
    /\ UNCHANGED <<page, items, sistema, resultados, rows, form, estadoSistema,
                   analisisRecientes, estadisticas, loading, procesando>>
    /\ UNCHANGED <<vars, formVars, camVars, roles, rolesFetch>>

\* "Liberar" (shown while the status is inicializado).
ClickLiberar ==
    /\ page = "analisis" /\ PageClickable /\ FreeCalls # {}
    /\ Inicializado(estadoSistema)
    /\ calls' = [calls EXCEPT ![FirstFreeCall] =
                    NewCall("liberar", 0, "", "", FALSE)]
    /\ UNCHANGED <<page, items, sistema, resultados, rows, form, swal,
                   estadoSistema, analisisRecientes, estadisticas, loading,
                   procesando>>
    /\ UNCHANGED <<vars, formVars, camVars, roles, rolesFetch>>

\* inicializar or liberar was answered: say so and reload.
SistemaSucceeded(i) ==
    /\ calls[i].op \in {"inicializar", "liberar"} /\ Resolved(calls[i])
    /\ swal' = SwalFire("success")
    /\ CargarDatos(i, "")
    /\ UNCHANGED <<page, items, sistema, resultados, rows, form, estadoSistema,
                   analisisRecientes, estadisticas, procesando>>
    /\ UNCHANGED <<vars, formVars, camVars, roles, rolesFetch>>

SistemaFailed(i) ==
    /\ calls[i].op \in {"inicializar", "liberar"} /\ Pending(calls[i])
    /\ swal' = SwalFire("error")
    /\ calls' = [calls EXCEPT ![i] = NoCall]
    /\ UNCHANGED <<page, items, sistema, resultados, rows, form, estadoSistema,
                   analisisRecientes, estadisticas, loading, procesando>>
    /\ UNCHANGED <<vars, formVars, camVars, roles, rolesFetch>>

\* The finally of handleRealizarAnalisis, run when the reload it awaits ends.
AfterCargarDatos(c) == IF c.after = "realizarAnalisis" THEN FALSE ELSE procesando

\* CargarDatosFailed that keeps the answers that did arrive.
CargarDatosFailedPartial(i) ==
    LET c == calls[i] IN
    /\ c.op = "cargarDatos" /\ Pending(c)
    /\ estadoSistema' = IF c.res[1] = "ok" THEN c.data[1] ELSE estadoSistema
    /\ analisisRecientes' = IF c.res[2] = "ok" THEN c.data[2][1] ELSE analisisRecientes
    /\ estadisticas' = IF c.res[3] = "ok" THEN c.data[3] ELSE estadisticas
    /\ swal' = SwalFire("error")
    /\ loading' = FALSE
    /\ procesando' = AfterCargarDatos(c)
    /\ calls' = [calls EXCEPT ![i] = NoCall]
    /\ UNCHANGED <<page, items, sistema, resultados, rows, form>>
    /\ UNCHANGED <<vars, formVars, camVars, roles, rolesFetch>>

\* One of the three requests failed: the catch shows the error.
CargarDatosFailed(i) ==
    LET c == calls[i] IN
    /\ c.op = "cargarDatos" /\ Pending(c)
    /\ swal' = SwalFire("error")
    /\ loading' = FALSE
    /\ procesando' = AfterCargarDatos(c)
    /\ calls' = [calls EXCEPT ![i] = NoCall]
    /\ UNCHANGED <<page, items, sistema, resultados, rows, form, estadoSistema,
                   analisisRecientes, estadisticas>>
    /\ UNCHANGED <<vars, formVars, camVars, roles, rolesFetch>>

\* The three requests were answered: the three states are set.
CargarDatosSucceeded(i) ==
    LET c == calls[i] IN
    /\ c.op = "cargarDatos" /\ Resolved(c)
    /\ estadoSistema' = c.data[1]
    /\ analisisRecientes' = c.data[2][1]
    /\ estadisticas' = c.data[3]
    /\ loading' = FALSE
    /\ procesando' = AfterCargarDatos(c)
    /\ calls' = [calls EXCEPT ![i] = NoCall]
    /\ UNCHANGED <<page, items, sistema, resultados, rows, form, swal>>
    /\ UNCHANGED <<vars, formVars, camVars, roles, rolesFetch>>

\* No page that calls the API is mounted; no form is open.
PagesClosed ==
    /\ page = "none"
    /\ items = {}
    /\ sistema = [inicializado |-> FALSE, configuracion_activa |-> FALSE]
    /\ resultados = 0
    /\ rows = {}
    /\ form = FormClosed
    /\ swal = NoSwal
    /\ calls = [i \in CallSlots |-> NoCall]
    /\ estadoSistema = Null
    /\ analisisRecientes = 0
    /\ estadisticas = Null
    /\ loading = FALSE
    /\ procesando = FALSE
    /\ roles = Null
    /\ rolesFetch = "none"

FormsClosed ==
    /\ formulario = "none"
    /\ valores = Null
    /\ isEdit = FALSE
    /\ enviado = Null
    /\ rechazado = FALSE
    /\ cuerpo = Null

\* The default of CameraPreview's prop refreshInterval.
DefaultInterval == 200

\* No CameraPreview is mounted.
CameraClosed ==
    /\ mounted = FALSE
    /\ isActive = FALSE
    /\ refreshInterval = DefaultInterval
    /\ effectPending = FALSE
    /\ intervalRef = Null
    /\ timers = {}
    /\ nextTimer = 1
    /\ previewData = Null
    /\ previewLoading = FALSE
    /\ previewError = Null
    /\ isStreaming = FALSE
    /\ fetches = [effect |-> 0, timer |-> 0]

\* A step of the session and the router leaves the pages, the forms and the
\* camera preview alone.
SessionStep == UNCHANGED <<pageVars, formVars, camVars>>

\* ----------------------------------------------------- page specification
\* The signed-in session the pages run in: the tokens of a login just made,
\* so that the interceptor only adds the header.
SignedIn ==
    /\ storage = StoreLogin(EmptyStorage, "a1", "r1", 0)
    /\ defaultsAuth = Bearer("a1")
    /\ user = <<[username |-> "root", rol_nombre |-> "Super Administrador"]>>
    /\ init = FALSE
    /\ effectRun = TRUE
    /\ route = PagePath(page)
    /\ loginError = ""
    /\ reqs = [i \in Slots |-> Idle]
    /\ now = 0
    /\ lastRefresh = "none"

\* The collections the server may hold when the page is opened: ids are
\* unique, at most one configuration is active, and the only Super
\* Administrador is the seeded user (id 0, outside the ids handed out later).
SeedAdmin == Item(0, "Super Administrador", FALSE)
InitItems(p) ==
    LET flags == IF p = "configuraciones" THEN BOOLEAN ELSE {FALSE}
        all == {Item(i, "Operador", a) : i \in Ids, a \in flags}
        seeds == IF p = "usuarios" THEN {{}, {SeedAdmin}} ELSE {{}}
    IN  IF p = "analisis" THEN {{}}
        ELSE {s \cup seed : seed \in seeds,
                            s \in {t \in SUBSET all :
                                     /\ \A x, y \in t : x.id = y.id => x = y
                                     /\ Cardinality({x \in t : x.activa}) <= 1}}

PageInit ==
    /\ page \in Pages
    /\ items \in InitItems(page)
    /\ sistema \in IF page = "analisis"
                   THEN [inicializado : BOOLEAN, configuracion_activa : BOOLEAN]
                   ELSE {[inicializado |-> FALSE, configuracion_activa |-> FALSE]}
    /\ resultados = 0
    /\ rows = {}
    /\ form = FormClosed
    /\ swal = NoSwal
    /\ calls = [i \in CallSlots |->
                  IF i = 1
                  THEN NewCall(IF page = "analisis" THEN "cargarDatos" ELSE "list",
                               0, "", "", FALSE)
                  ELSE NoCall]
    /\ estadoSistema = Null
    /\ analisisRecientes = 0
    /\ estadisticas = Null
    /\ loading = (page \in {"configuraciones", "analisis"})
    /\ procesando = FALSE
    /\ roles = Null
    /\ rolesFetch = "none"
    /\ SignedIn
    /\ FormsClosed /\ CameraClosed

PageNext ==
    \/ \E data \in SUBSET ServerRoles : RolesAnswered(data)
    \/ RolesFailed
    \/ ClickNuevo
    \/ CloseForm
    \/ \E val \in FormNombres : SubmitForm(val)
    \/ \E id \in Ids : ClickEditar(id) \/ ClickBorrar(id) \/ ClickActivar(id)
    \/ ConfirmYes
    \/ ConfirmNo
    \/ CloseSwal
    \/ ClickActualizar
    \/ ClickAnalizar
    \/ ClickInicializar
    \/ ClickLiberar
    \/ \E i \in CallSlots :
          \/ \E k \in 1..NParts(calls[i].op), vacio \in BOOLEAN : Serve(i, k, vacio)
          \/ ListSucceeded(i)
          \/ ListFailed(i)
          \/ SaveSucceeded(i)
          \/ SaveFailed(i)
          \/ DeleteSucceeded(i)
          \/ DeleteFailed(i)
          \/ ActivateSucceeded(i)
          \/ ActivateFailed(i)
          \/ CargarDatosSucceeded(i)
          \/ CargarDatosFailed(i)
          \/ AnalisisSucceeded(i)
          \/ AnalisisFailed(i)
          \/ SistemaSucceeded(i)
          \/ SistemaFailed(i)

PageSpec == PageInit /\ [][PageNext]_allVars


\* ------------------------------------------------------------ specification
\* What an earlier session may have left in localStorage: nothing, or the
\* tokens of a login made an hour, 59 minutes or no time ago.
EarlierLogins == {0 - HourMs, MinuteMs - HourMs, 0}
InitStorages ==
    {EmptyStorage} \cup {StoreLogin(EmptyStorage, "a1", "r1", t) : t \in EarlierLogins}

Init ==
    /\ storage \in InitStorages
    /\ defaultsAuth = Null
    /\ user = Null
    /\ init = TRUE
    /\ effectRun = FALSE
    /\ route \in Routes
    /\ loginError = ""
    /\ reqs = [i \in Slots |-> Idle]
    /\ now = 0
    /\ lastRefresh = "none"
    /\ PagesClosed /\ FormsClosed /\ CameraClosed

Next ==
    \/ RestoreSession /\ SessionStep
    \/ LoginSubmit /\ SessionStep
    \/ Logout /\ SessionStep
    \/ OtherTabLogout /\ SessionStep
    \/ \E n \in 1..MaxReq : IssueData(n) /\ SessionStep
    \/ \E d \in ClockSteps : Tick(d) /\ SessionStep
    \/ \E i \in Slots :
          \/ Interceptor(i) /\ SessionStep
          \/ \E a \in AccessTokens : RefreshSucceeded(i, a) /\ SessionStep
          \/ RefreshRejected(i) /\ SessionStep
          \/ \E p \in Profiles : RestoreSucceeded(i, p) /\ SessionStep
          \/ RestoreRejected(i) /\ SessionStep
          \/ \E a \in AccessTokens, r \in RefreshTokens :
                TokenSucceeded(i, a, r) /\ SessionStep
          \/ LoginRejected(i) /\ SessionStep
          \/ \E p \in Profiles : LoginSucceeded(i, p) /\ SessionStep
          \/ DataDone(i) /\ SessionStep

Spec == Init /\ [][Next]_allVars

\* ------------------------------------------------------------------ routing
\* The route patterns of App.tsx; "/analisis/:id" stands for a location with
\* some id, "*" for a location no other pattern matches.
AppPaths == {"/login", "/", "/register", "/usuarios", "/roles", "/analisis",
             "/analisis/configuraciones", "/analisis/:id", "*"}

\* The page element App.tsx gives each pattern.
Element(path) ==
    CASE path = "/login" -> "LoginPage"
      [] path = "/" -> "HomePage"
      [] path = "/register" -> "RegisterPage"
      [] path = "/usuarios" -> "Usuarios"
      [] path = "/roles" -> "Roles"
      [] path = "/analisis" -> "AnalisisCoples"
      [] path = "/analisis/configuraciones" -> "ConfiguracionesAnalisis"
      [] path = "/analisis/:id" -> "DetalleAnalisis"
      [] OTHER -> "NotFound"

\* GuardedPaths with the registration page left public.
GuardedPathsRegisterPublic ==
    {"/", "/usuarios", "/roles", "/analisis", "/analisis/configuraciones",
     "/analisis/:id"}

\* The patterns App.tsx nests under <PrivateRoute /> (and <Layout />).
GuardedPaths ==
    {"/", "/register", "/usuarios", "/roles", "/analisis",
     "/analisis/configuraciones", "/analisis/:id"}

ShowPage(el) == <<"Page", el>>
NavigateTo(path) == <<"Navigate", path>>

\* AdminRoute that lets every signed-in user through.
AdminRouteAnyUser(u, children) ==
    IF u = Null THEN NavigateTo("/") ELSE children

\* AdminRoute: the children for a Super Administrador, else <Navigate to="/">.
AdminRoute(u, children) ==
    IF u = Null \/ u[1].rol_nombre # "Super Administrador"
    THEN NavigateTo("/")
    ELSE children

\* PrivateRoute: "has a session", else redirect to login.
PrivateRoute(u, children) ==
    IF u = Null THEN NavigateTo("/login") ELSE children

\* What <AuthProvider><App /></AuthProvider> renders.
Rendered ==
    IF init THEN <<"Nothing">>
    ELSE IF route \in GuardedPaths
         THEN PrivateRoute(user,
                  IF route = "/roles"
                  THEN AdminRoute(user, ShowPage(Element(route)))
                  ELSE ShowPage(Element(route)))
         ELSE ShowPage(Element(route))

\* A rendered <Navigate to=... replace /> changes the location.
Redirect ==
    /\ Rendered[1] = "Navigate"
    /\ route' = Rendered[2]
    /\ UNCHANGED <<storage, defaultsAuth, user, init, effectRun, loginError,
                   reqs, now, lastRefresh>>

\* The user follows a link, or goes back or forward in the history.
GoTo(path) ==
    /\ PageReady /\ path # route
    /\ route' = path
    /\ UNCHANGED <<storage, defaultsAuth, user, init, effectRun, loginError,
                   reqs, now, lastRefresh>>

\* The application opened at any location, with nothing stored or with the
\* tokens of a login just made; no token comes near its expiry.
RouteInit ==
    /\ storage \in {EmptyStorage, StoreLogin(EmptyStorage, "a1", "r1", 0)}
    /\ defaultsAuth = Null
    /\ user = Null
    /\ init = TRUE
    /\ effectRun = FALSE
    /\ route \in AppPaths
    /\ loginError = ""
    /\ reqs = [i \in Slots |-> Idle]
    /\ now = 0
    /\ lastRefresh = "none"
    /\ PagesClosed /\ FormsClosed /\ CameraClosed

RouteNext ==
    \/ RestoreSession /\ SessionStep
    \/ LoginSubmit /\ SessionStep
    \/ Logout /\ SessionStep
    \/ Redirect /\ SessionStep
    \/ \E path \in AppPaths : GoTo(path) /\ SessionStep
    \/ \E i \in Slots :
          \/ Interceptor(i) /\ SessionStep
          \/ \E p \in Profiles : RestoreSucceeded(i, p) /\ SessionStep
          \/ RestoreRejected(i) /\ SessionStep
          \/ \E a \in AccessTokens, r \in RefreshTokens :
                TokenSucceeded(i, a, r) /\ SessionStep
          \/ LoginRejected(i) /\ SessionStep
          \/ \E p \in Profiles : LoginSucceeded(i, p) /\ SessionStep

RouteSpec == RouteInit /\ [][RouteNext]_allVars

\* ------------------------------------------------------------------ claims
\* The interceptor ran for the innermost request of slot i in this step.
InterceptorRan(i) == reqs[i].phase = "icpt" /\ reqs'[i] # reqs[i]
\* ... and made the token/refresh/ call.
RefreshCalled(i) == Len(reqs'[i].stack) = Len(reqs[i].stack) + 1
\* The innermost request of slot i went on the network in this step.
Sent(i) == reqs'[i].phase = "net" /\ reqs'[i] # reqs[i]
\* The stored expiry is less than one minute after the current time.
ExpiryWithinMinute ==
    /\ Has(storage, "accessTokenExp")
    /\ ParseInt(storage["accessTokenExp"]) * 1000 < now + 60000
NoTokensStored(st) == DOMAIN st \cap Keys = {}
AllTokensStored(st) == Keys \subseteq DOMAIN st
Quiescent == \A i \in Slots : reqs[i] = Idle

C2_AtMostOneRefresh == \A i \in Slots : Len(reqs[i].stack) <= 1

\* C3: when the refresh call fails, accessToken, refreshToken and
\* accessTokenExp are all removed from localStorage.
C3_FailureClearsStorage ==
    [][\A i \in Slots : RefreshRejected(i) => NoTokensStored(storage')]_vars

\* C3 witness: a refresh has failed, its request has gone on with nothing
\* stored.
C3_Witness ==
    /\ lastRefresh = "failed" /\ NoTokensStored(storage)
    /\ \E i \in Slots : reqs[i].phase = "net"

\* C4 as claimed: after a failed refresh and until the next login, no request
\* that goes on the network carries an Authorization header, the request
\* that triggered the refresh included.
C4_FailClosed ==
    [][\A i \in Slots :
          (lastRefresh' = "failed" /\ Sent(i)) => reqs'[i].hdr = Null]_vars

\* C5 as claimed: after a failed refresh, once every request has been
\* answered, the auth-context user is null (and the login screen shown).
C5_FallsBackToLogin ==
    (lastRefresh = "failed" /\ ~init /\ Quiescent) => user = Null

\* C6: a successful refresh stores the returned token as accessToken and the
\* current time plus one hour, in Unix seconds, as accessTokenExp, and sends
\* the triggering request with Bearer <new token>; and a request sent while a
\* stored token has one minute or more left carries that stored token.
C6_RefreshSuccess ==
    [][\A i \in Slots :
          /\ \A a \in AccessTokens : RefreshSucceeded(i, a) =>
                /\ Has(storage', "accessToken") /\ storage'["accessToken"] = a
                /\ Has(storage', "accessTokenExp")
                /\ ParseInt(storage'["accessTokenExp"]) = (now + 3600000) \div 1000
                /\ Sent(i) /\ reqs'[i].hdr = <<"Bearer", a>>
          /\ (/\ InterceptorRan(i) /\ Sent(i)
              /\ Has(storage, "accessToken") /\ Has(storage, "accessTokenExp")
              /\ ~ExpiryWithinMinute)
                => reqs'[i].hdr = <<"Bearer", storage["accessToken"]>>]_vars

\* C6 witness: after a successful refresh, a later request is on the network
\* with the stored new token while the triggering one has been answered.
C6_Witness ==
    /\ lastRefresh = "succeeded"
    /\ Has(storage, "accessToken") /\ storage["accessToken"] = "a2"
    /\ \E i \in Slots : /\ reqs[i].kind = "data" /\ reqs[i].phase = "net"
                        /\ reqs[i].stack = <<>>
                        /\ reqs[i].hdr = <<"Bearer", "a2">>
    /\ \E j \in Slots : reqs[j] = Idle

\* C7: nothing coordinates refreshes: a request whose interceptor finds the
\* token within one minute of expiry makes its own refresh call although
\* another request already has one open.
C7_NoCoordination ==
    [][\A i \in Slots :
          (/\ InterceptorRan(i)
           /\ Has(storage, "accessToken") /\ ExpiryWithinMinute
           /\ Has(storage, "refreshToken")
           /\ \E j \in Slots \ {i} : reqs[j].stack # <<>>)
             => RefreshCalled(i)]_vars

\* C7 witness: two requests each with a refresh exchange of its own on the
\* network.
C7_Witness ==
    \E i, j \in Slots :
        /\ i # j
        /\ reqs[i].phase = "net" /\ reqs[i].stack # <<>>
        /\ reqs[j].phase = "net" /\ reqs[j].stack # <<>>

\* C8 as claimed: when the profile fetch of login answers, localStorage holds
\* the three keys, the default header is Bearer <stored access token>, the user
\* is the fetched profile and the route is "/".
C8_LoginPostcondition ==
    [][\A i \in Slots : \A p \in Profiles : LoginSucceeded(i, p) =>
          /\ AllTokensStored(storage')
          /\ defaultsAuth' = <<"Bearer", storage'["accessToken"]>>
          /\ user' = <<p>> /\ route' = "/"]_vars

\* C8 amended: when the token exchange of login answers, localStorage holds
\* the returned accessToken and refreshToken and accessTokenExp = now + one
\* hour, and the default header is Bearer <access>; when the profile fetch then
\* answers, the user is the fetched profile and the route is "/".
C8_LoginSteps ==
    [][\A i \in Slots :
          /\ \A a \in AccessTokens, r \in RefreshTokens : TokenSucceeded(i, a, r) =>
                /\ AllTokensStored(storage')
                /\ storage'["accessToken"] = a /\ storage'["refreshToken"] = r
                /\ ParseInt(storage'["accessTokenExp"]) = (now + 3600000) \div 1000
                /\ defaultsAuth' = <<"Bearer", a>>
          /\ \A p \in Profiles : LoginSucceeded(i, p) =>
                user' = <<p>> /\ route' = "/"]_vars

\* C8 witness: a login has completed: its tokens are stored, the header is
\* set, the user is a profile and the route is "/".
C8_Witness ==
    /\ lastRefresh = "none" /\ AllTokensStored(storage)
    /\ storage["accessToken"] = "a2" /\ defaultsAuth = <<"Bearer", "a2">>
    /\ user # Null /\ route = "/" /\ Quiescent

\* C9: when the token exchange or the profile fetch of login fails, LoginPage
\* shows its error message, the user is not set and the route does not change.
C9_LoginFailure ==
    [][\A i \in Slots :
          (/\ reqs[i].kind \in {"token", "me_login"} /\ reqs[i].stack = <<>>
           /\ reqs[i].phase = "net" /\ reqs'[i] = Idle
           /\ ~\E p \in Profiles : LoginSucceeded(i, p))
             => /\ loginError' = "Usuario o contraseña incorrectos."
                /\ user' = user /\ route' = route]_vars

\* C9 witness: the login page shows the error, no user, still on /login.
C9_Witness ==
    loginError = LoginErrorMsg /\ user = Null /\ route = "/login" /\ Quiescent

\* C10: after logout the three keys are absent, the default Authorization
\* header is removed, the user is null and the route is /login.
C10_LogoutPostcondition ==
    [][(route # "/login" /\ route' = "/login") =>
          /\ NoTokensStored(storage')
          /\ defaultsAuth' = Null
          /\ user' = Null]_vars

\* C10 witness: logged out of a session with a request still on the network.
C10_Witness ==
    /\ route = "/login" /\ user = Null /\ defaultsAuth = Null
    /\ NoTokensStored(storage)
    /\ \E i \in Slots : reqs[i].kind = "data" /\ reqs[i].phase = "net"

\* The users/me/ request of the mount effect is still unanswered.
RestorePending == \E i \in Slots : reqs[i].kind = "me_init"

\* C11: the restore-session check of AuthProvider runs once, at mount; the
\* children are rendered (init false) only after it has run and, when a token
\* was stored, after its users/me/ request has been answered; until then the
\* provider renders nothing, and once rendered the children stay rendered.
C11_RestoreBeforeChildren ==
    /\ [](~init => (effectRun /\ ~RestorePending))
    /\ [][/\ effectRun => effectRun'
          /\ (~RestorePending /\ RestorePending') => (~effectRun /\ effectRun' /\ init')
          /\ ~init => ~init']_vars

\* C11 witness: the session of a stored token has been restored: the check
\* ran, its users/me/ was answered with the profile, the children are rendered.
C11_Witness ==
    /\ ~init /\ effectRun /\ ~RestorePending
    /\ user # Null /\ loginError = "" /\ route = "/login"
    /\ defaultsAuth = <<"Bearer", "a1">>

\* The auth-context user is a Super Administrador.
IsSuperAdmin(u) == u # Null /\ u[1].rol_nombre = "Super Administrador"

\* C12: the Roles page is rendered only when the auth-context user is not
\* null and its rol_nombre is 'Super Administrador'; for every other user
\* AdminRoute gives a redirect to "/" and the page is not rendered.
C12_AdminGuard ==
    /\ [](/\ Rendered = <<"Page", "Roles">> => IsSuperAdmin(user)
          /\ (~init /\ route = "/roles" /\ user # Null /\ ~IsSuperAdmin(user))
                => Rendered = <<"Navigate", "/">>
          /\ \A u \in {Null} \cup {<<p>> : p \in Profiles} :
                ~IsSuperAdmin(u) =>
                    AdminRoute(u, <<"Page", "Roles">>) = <<"Navigate", "/">>)
    /\ [][(Redirect /\ route = "/roles" /\ user # Null) => route' = "/"]_vars

\* C12 witness: a signed-in Operador is at /roles and AdminRoute renders the
\* redirect to "/" in place of the page.
C12_Witness ==
    /\ ~init /\ route = "/roles" /\ user # Null /\ ~IsSuperAdmin(user)
    /\ Rendered = <<"Navigate", "/">>

\* The pages of the routes that need a session.
SessionPages ==
    {"HomePage", "RegisterPage", "Usuarios", "Roles", "AnalisisCoples",
     "ConfiguracionesAnalisis", "DetalleAnalisis"}

\* C13: the pages of /, /register, /usuarios, /roles, /analisis,
\* /analisis/configuraciones and /analisis/:id are rendered only when a session
\* exists; without a session the guard redirects these routes to /login, while
\* /login and the not-found page are rendered without one.
C13_SessionGuard ==
    /\ [](/\ (Rendered[1] = "Page" /\ Rendered[2] \in SessionPages) => user # Null
          /\ (~init /\ user = Null /\ Element(route) \in SessionPages)
                => Rendered = <<"Navigate", "/login">>
          /\ (~init /\ Element(route) \notin SessionPages)
                => Rendered = <<"Page", Element(route)>>)
    /\ [][(Redirect /\ user = Null) => route' = "/login"]_vars

\* C13 witness: /usuarios is open without a session and the guard renders
\* the redirect to /login in place of the page.
C13_Witness ==
    /\ ~init /\ user = Null /\ route = "/usuarios"
    /\ Rendered = <<"Navigate", "/login">>

\* ------------------------------------------------------------ page claims
\* Slot i gets a new call of one of `ops` in this step.
Issued(i, ops) == calls'[i] # calls[i] /\ calls'[i].op \in ops /\ Pending(calls'[i])

\* C14: on the Users, Roles and Configurations pages a delete call is sent
\* only by the step that answers the confirmation popup, and for the row the
\* popup asked about; closing the popup sends nothing else: cancelled or
\* dismissed, no delete is sent, no list reload is made and the rows stay.
C14_DeleteAfterConfirm ==
    [][/\ \A i \in CallSlots :
             Issued(i, {"delete"}) =>
                /\ swal.icon = "warning" /\ swal' = NoSwal
                /\ calls'[i].id = swal.id
                /\ \A j \in CallSlots \ {i} : calls'[j] = calls[j]
       /\ (swal.icon = "warning" /\ swal' = NoSwal) =>
             /\ rows' = rows
             /\ \A i \in CallSlots : ~Issued(i, {"list"})
             /\ \/ calls' = calls
                \/ \E i \in CallSlots : Issued(i, {"delete"})]_allVars

\* C14 witness: the popup for a row of the grid was confirmed and the delete
\* call for that row is on its way.
C14_Witness ==
    /\ page \in CrudPages /\ swal = NoSwal
    /\ \E i \in CallSlots :
          /\ calls[i].op = "delete" /\ Pending(calls[i])
          /\ \E row \in rows : row.id = calls[i].id

\* What the page is to show of the server's collection: all of it, on the
\* Users page the users that are not Super Administrador.
Shown == {x \in items : page = "usuarios" => x.rol_nombre # "Super Administrador"}

\* C15: a create, update, delete (or activate) that succeeded triggers a
\* reload of the list, and when a reload completes with no operation having
\* changed the server's collection since the server answered it, the rows
\* displayed equal the server's collection (on the Users page: its users that
\* are not Super Administrador).
C15_RoundTrip ==
    [][\A i \in CallSlots :
          /\ (calls[i].op \in Mutations /\ Resolved(calls[i]) /\ calls'[i] # calls[i])
                => Issued(i, {"list"})
          /\ (/\ calls[i].op = "list" /\ Resolved(calls[i]) /\ calls[i].clean
              /\ calls'[i] = NoCall)
                => rows' = Shown /\ items' = items]_allVars

\* C15 witness: on the Users page a user saved through the form is in the
\* server's collection next to the seeded Super Administrador, the reload has
\* completed and the grid shows the saved user only.
C15_Witness ==
    /\ page = "usuarios" /\ calls = [i \in CallSlots |-> NoCall]
    /\ items = {SeedAdmin, Item(1, "Supervisor", FALSE)}
    /\ rows = {Item(1, "Supervisor", FALSE)}
    /\ ~form.open

\* Call i fails in this step: it was waiting for an answer and its handler
\* has finished with it without one.
Failed(i) == calls[i].op # "idle" /\ Pending(calls[i]) /\ calls'[i] = NoCall

\* C16: every call of the CRUD pages (load, save, delete, activate) and of
\* the dashboard (load, initialize, release, analyse) that fails ends with an
\* error popup on screen.
C16_ErrorsSurfaced ==
    [][\A i \in CallSlots : Failed(i) => swal'.icon = "error"]_allVars

\* The three states cargarDatos sets.
Tablero == <<estadoSistema, analisisRecientes, estadisticas>>

\* C17: the dashboard's system status, recent results and statistics change
\* only in the step where a cargarDatos whose three requests were all
\* answered sets the three of them to its answers; a cargarDatos of which a
\* request fails leaves all three as they were, and a list load that fails on
\* the Users, Roles or Configurations page leaves the rows as they were.
C17_FailedLoadsKeepState ==
    [][/\ Tablero' # Tablero =>
             \E i \in CallSlots :
                /\ calls[i].op = "cargarDatos" /\ Resolved(calls[i])
                /\ calls'[i] = NoCall
                /\ Tablero' = <<calls[i].data[1], calls[i].data[2][1], calls[i].data[3]>>
       /\ \A i \in CallSlots :
             /\ (Failed(i) /\ calls[i].op = "cargarDatos") => Tablero' = Tablero
             /\ (Failed(i) /\ calls[i].op = "list") => rows' = rows]_allVars

\* C17 witness: the system was released and the reload that followed failed:
\* the error is on screen and the dashboard still shows the status it had,
\* inicializado, which the server no longer reports.
C17_Witness ==
    /\ page = "analisis" /\ swal.icon = "error" /\ ~loading
    /\ calls = [i \in CallSlots |-> NoCall]
    /\ Inicializado(estadoSistema) /\ ~sistema.inicializado

\* The realizarAnalisis calls of the page that are in flight.
AnalisisInFlight == {i \in CallSlots : calls[i].op = "realizarAnalisis"}

\* C18: the dashboard sends realizarAnalisis only when the status it last
\* fetched says inicializado and procesando is false, that is when no
\* analysis of the page is in progress: while one is in flight procesando is
\* true, so there is never more than one.
C18_AnalisisGating ==
    /\ [](/\ AnalisisInFlight # {} => procesando
          /\ Cardinality(AnalisisInFlight) <= 1)
    /\ [][\A i \in CallSlots :
             Issued(i, {"realizarAnalisis"}) =>
                /\ Inicializado(estadoSistema)
                /\ ~procesando /\ procesando'
                /\ AnalisisInFlight = {}]_allVars

\* C18 witness: with the fetched status inicializado an analysis was started
\* and is in flight, procesando is true and the page has a free slot for
\* another call.
C18_Witness ==
    /\ page = "analisis" /\ PageClickable
    /\ Inicializado(estadoSistema) /\ procesando
    /\ AnalisisInFlight # {} /\ FreeCalls # {}

\* ------------------------------------------------------------------ forms
\* The two Formik forms.  A text is the sequence of its characters ('' is
\* <<>>); a threshold is held in hundredths (0.55 is 55); the value of an
\* empty number input is '' as well.
Digits == <<"0", "1", "2", "3", "4", "5", "6", "7", "8", "9">>
IsDigit(c) == \E n \in 1..Len(Digits) : Digits[n] = c
DigitValue(c) == CHOOSE n \in 0..9 : Digits[n + 1] = c
InRange(c, lo, hi) == IsDigit(c) /\ DigitValue(c) \in lo..hi

\* The parts of a text between its dots.
RECURSIVE SplitDots(_)
SplitDots(s) ==
    IF s = <<>> THEN << <<>> >>
    ELSE LET rest == SplitDots(Tail(s))
         IN  IF Head(s) = "." THEN << <<>> >> \o rest
             ELSE << <<Head(s)>> \o rest[1] >> \o Tail(rest)

\* MatchOctet that takes any one to three digits.
MatchOctetAnyDigits(s) == Len(s) \in 1..3 /\ \A k \in 1..Len(s) : IsDigit(s[k])

\* (?:25[0-5]|2[0-4][0-9]|[01]?[0-9][0-9]?)
MatchOctet(s) ==
    \/ Len(s) = 3 /\ s[1] = "2" /\ s[2] = "5" /\ InRange(s[3], 0, 5)
    \/ Len(s) = 3 /\ s[1] = "2" /\ InRange(s[2], 0, 4) /\ IsDigit(s[3])
    \/ \E lead \in 0..1, last \in 0..1 :
          /\ Len(s) = lead + 1 + last
          /\ lead = 1 => s[1] \in {"0", "1"}
          /\ IsDigit(s[lead + 1])
          /\ last = 1 => IsDigit(s[lead + 2])

\* /^(?:octet\.){3}octet$/: an octet holds no dot, so the text matches when
\* its dots cut it into four octets.
MatchIp(s) ==
    LET parts == SplitDots(s)
    IN  Len(parts) = 4 /\ \A k \in 1..4 : MatchOctet(parts[k])

\* yup's email() on the texts drawn here: one @ with text on both sides.
MatchEmail(s) ==
    \E k \in 2..(Len(s) - 1) : s[k] = "@" /\ \A j \in 1..Len(s) : s[j] = "@" => j = k

\* Formik's prepareDataForValidation: '' becomes undefined.
Prepare(v) == [defined |-> v # <<>>, value |-> v]

\* yup: required() fails for undefined; the other tests pass for undefined
\* (matches() and email() are only reached here behind a required()).
Required(p) == p.defined
StringMin(p, n) == ~p.defined \/ Len(p.value) >= n
NumberMin(p, n) == ~p.defined \/ p.value[1] >= n
NumberMax(p, n) == ~p.defined \/ p.value[1] <= n
OneOf(p, allowed) == ~p.defined \/ p.value \in allowed

NombreMin == 3
UmbralMin == 0
UmbralMax == 100
Robusteces == {"original", "moderada", "permisiva", "ultra_permisiva"}

\* validationSchema of ConfiguracionForm (the robustez of a Select is never '').
ConfiguracionValid(v) ==
    /\ Required(Prepare(v.nombre)) /\ StringMin(Prepare(v.nombre), NombreMin)
    /\ Required(Prepare(v.ip_camara)) /\ MatchIp(Prepare(v.ip_camara).value)
    /\ Required(Prepare(v.umbral_confianza))
    /\ NumberMin(Prepare(v.umbral_confianza), UmbralMin)
    /\ NumberMax(Prepare(v.umbral_confianza), UmbralMax)
    /\ Required(Prepare(v.umbral_iou))
    /\ NumberMin(Prepare(v.umbral_iou), UmbralMin)
    /\ NumberMax(Prepare(v.umbral_iou), UmbralMax)
    /\ v.configuracion_robustez \in Robusteces

\* base of UsuarioForm's schemas (rol is a number of the Select, never '').
BaseValid(v) ==
    /\ Required(Prepare(v.username))
    /\ Required(Prepare(v.email)) /\ MatchEmail(Prepare(v.email).value)
    /\ Required(Prepare(v.name))
    /\ v.rol >= 1

\* createSchema: password and confirmPassword required, oneOf([ref('password')]).
CreateValid(v) ==
    /\ BaseValid(v)
    /\ Required(Prepare(v.password))
    /\ Required(Prepare(v.confirmPassword))
    /\ OneOf(Prepare(v.confirmPassword), {Prepare(v.password).value})

\* The test of editSchema that asks for a confirmation in every case.
MatchIfChangedAlways(value, pwd) == value.defined /\ value.value = pwd.value

\* test('match-if-changed'): if (!pwd) return true; return value === pwd
MatchIfChanged(value, pwd) ==
    IF ~pwd.defined THEN TRUE
    ELSE value.defined /\ value.value = pwd.value

\* editSchema: password optional.
EditValid(v) ==
    /\ BaseValid(v)
    /\ MatchIfChanged(Prepare(v.confirmPassword), Prepare(v.password))

\* a || b
OrElse(a, b, falsy) == IF a \in falsy THEN b ELSE a

\* The texts and numbers typed into the fields.
OctetInputs ==
    {<<>>, <<"0">>, <<"2", "1">>, <<"0", "9", "9">>, <<"2", "4", "9">>,
     <<"2", "5", "5">>, <<"2", "5", "6">>, <<"3", "0", "0">>, <<"1", "a">>,
     <<"0", "2", "5", "5">>}
Quad(a, b, c, d) == a \o <<".">> \o b \o <<".">> \o c \o <<".">> \o d
IpInputs ==
    {Quad(<<"1", "7", "2">>, <<"1", "6">>, <<"1">>, d) : d \in OctetInputs}
    \cup {Quad(a, <<"1", "6">>, <<"1">>, <<"2", "1">>) :
             a \in {<<"0">>, <<"2", "5", "6">>, <<"1", "a">>}}
    \cup {<<"1", "7", "2", ".", "1", "6", ".", "1">>,
          <<"1", "7", "2", ".", "1", "6", ".", "1", ".", "2", "1", ".">>,
          <<"1", "7", "2", ".", "1", "6", ".", "1", ".", "2", "1", ".", "5">>,
          <<" ", "1", "7", "2", ".", "1", "6", ".", "1", ".", "2", "1">>,
          <<"1", "7", "2", ",", "1", "6", ",", "1", ",", "2", "1">>}
UmbralInputs == {<<>>, <<0 - 1>>, <<0>>, <<100>>, <<101>>}
UsuarioTexts == {<<>>, <<"a">>}
PasswordInputs == {<<>>, <<"x">>, <<"y">>}

\* The configurations and users a form may be opened on to edit.
StoredConfigs ==
    {[nombre |-> <<"a", "b", "c">>, ip_camara |-> Quad(<<"1", "7", "2">>, <<"1", "6">>, <<"1">>, <<"2", "1">>),
      umbral_confianza |-> <<0>>, umbral_iou |-> <<100>>,
      configuracion_robustez |-> "custom", activa |-> TRUE]}
StoredUsers ==
    {[username |-> <<"a">>, email |-> <<"a", "@", "b", ".", "c">>, name |-> <<"a">>, rol |-> 1]}

\* initialValues of useFormik in ConfiguracionForm.
ConfiguracionInitial(c) ==
    IF c = Null
    THEN [nombre |-> <<>>, ip_camara |-> Quad(<<"1", "7", "2">>, <<"1", "6">>, <<"1">>, <<"2", "1">>),
          umbral_confianza |-> <<55>>, umbral_iou |-> <<35>>,
          configuracion_robustez |-> "original", activa |-> FALSE]
    ELSE [nombre |-> c[1].nombre,
          ip_camara |-> OrElse(c[1].ip_camara, Quad(<<"1", "7", "2">>, <<"1", "6">>, <<"1">>, <<"2", "1">>), {<<>>}),
          umbral_confianza |-> OrElse(c[1].umbral_confianza, <<55>>, {<<>>, <<0>>}),
          umbral_iou |-> OrElse(c[1].umbral_iou, <<35>>, {<<>>, <<0>>}),
          configuracion_robustez |-> c[1].configuracion_robustez,
          activa |-> c[1].activa]

\* initialValues the Usuarios page gives UsuarioForm.
UsuarioInitial(u) ==
    IF u = Null
    THEN [username |-> <<>>, email |-> <<>>, name |-> <<>>, password |-> <<>>,
          confirmPassword |-> <<>>, rol |-> 0]
    ELSE [username |-> u[1].username, email |-> u[1].email, name |-> u[1].name,
          password |-> <<>>, confirmPassword |-> <<>>, rol |-> u[1].rol]

\* The values handleChange can give a field of the form.
FieldInputs(f) ==
    IF f = "configuracion"
    THEN [nombre |-> {<<>>, <<"a", "b">>, <<"a", "b", "c">>, <<" ", " ", " ">>},
          ip_camara |-> IpInputs,
          umbral_confianza |-> UmbralInputs, umbral_iou |-> UmbralInputs,
          configuracion_robustez |-> Robusteces, activa |-> BOOLEAN]
    ELSE [username |-> UsuarioTexts,
          email |-> {<<>>, <<"a">>, <<"a", "@", "b", ".", "c">>},
          name |-> UsuarioTexts,
          password |-> PasswordInputs, confirmPassword |-> PasswordInputs,
          rol |-> {0, 1}]

\* formik.handleChange: the field gets the value typed or chosen.
HandleChange(name, v) ==
    /\ formulario # "none"
    /\ name \in DOMAIN FieldInputs(formulario) /\ v \in FieldInputs(formulario)[name]
    /\ valores' = [valores EXCEPT ![name] = v]
    /\ enviado' = Null
    /\ rechazado' = FALSE
    /\ cuerpo' = Null
    /\ UNCHANGED <<formulario, isEdit>>
    /\ UNCHANGED <<vars, pageVars, camVars>>

\* The schema Formik validates with.
FormValid(f, edit, v) ==
    CASE f = "configuracion" -> ConfiguracionValid(v)
      [] f = "usuario" /\ edit -> EditValid(v)
      [] f = "usuario" /\ ~edit -> CreateValid(v)

\* SaveBody that sends an emptied password along.
SaveBodyKeepsPassword(f, payload, editing) ==
    IF f = "usuario"
    THEN [k \in DOMAIN payload \ {"confirmPassword"} |-> payload[k]]
    ELSE payload

\* The body handleSave of Usuarios gives createUsuario / updateUsuario:
\* the payload without confirmPassword and, when editing, without an empty
\* password.  handleFormSubmit of ConfiguracionesAnalisis sends the values
\* as they come.
SaveBody(f, payload, editing) ==
    IF f = "usuario"
    THEN LET rest == [k \in DOMAIN payload \ {"confirmPassword"} |-> payload[k]]
         IN  IF editing /\ rest.password = <<>>
             THEN [k \in DOMAIN rest \ {"password"} |-> rest[k]]
             ELSE rest
    ELSE payload

\* formik.handleSubmit: validate, and only without errors call onSubmit with
\* the values, of which the page makes its save request; with errors, show
\* them.
HandleSubmit ==
    /\ formulario # "none"
    /\ enviado' = IF FormValid(formulario, isEdit, valores) THEN <<valores>> ELSE Null
    /\ rechazado' = ~FormValid(formulario, isEdit, valores)
    /\ cuerpo' = IF FormValid(formulario, isEdit, valores)
                 THEN <<SaveBody(formulario, valores, isEdit)>> ELSE Null
    /\ UNCHANGED <<formulario, valores, isEdit>>
    /\ UNCHANGED <<vars, pageVars, camVars>>

\* Form f just opened by its page, to create or to edit a stored record.
FormInit(f) ==
    /\ formulario = f
    /\ isEdit \in BOOLEAN
    /\ valores \in IF formulario = "configuracion"
                   THEN IF isEdit THEN {ConfiguracionInitial(<<c>>) : c \in StoredConfigs}
                        ELSE {ConfiguracionInitial(Null)}
                   ELSE IF isEdit THEN {UsuarioInitial(<<u>>) : u \in StoredUsers}
                        ELSE {UsuarioInitial(Null)}
    /\ enviado = Null
    /\ rechazado = FALSE
    /\ cuerpo = Null
    /\ page = IF formulario = "configuracion" THEN "configuraciones" ELSE "usuarios"
    /\ items = IF isEdit THEN {Item(1, "Operador", FALSE)} ELSE {}
    /\ rows = items
    /\ form = [open |-> TRUE, editing |-> IF isEdit THEN 1 ELSE 0]
    /\ sistema = [inicializado |-> FALSE, configuracion_activa |-> FALSE]
    /\ resultados = 0
    /\ swal = NoSwal
    /\ calls = [i \in CallSlots |-> NoCall]
    /\ estadoSistema = Null
    /\ analisisRecientes = 0
    /\ estadisticas = Null
    /\ loading = FALSE
    /\ procesando = FALSE
    /\ roles = IF formulario = "usuario" THEN <<RolesOffered(ServerRoles)>> ELSE Null
    /\ rolesFetch = IF formulario = "usuario" THEN "ok" ELSE "none"
    /\ SignedIn /\ CameraClosed

FormNext ==
    \/ \E name \in DOMAIN FieldInputs(formulario) :
          \E v \in FieldInputs(formulario)[name] : HandleChange(name, v)
    \/ HandleSubmit

ConfiguracionFormSpec == FormInit("configuracion") /\ [][FormNext]_allVars

UsuarioFormSpec == FormInit("usuario") /\ [][FormNext]_allVars

\* ------------------------------------------------------------ form claims
\* The number a text of digits writes.
RECURSIVE TextValue(_)
TextValue(s) ==
    IF s = <<>> THEN 0
    ELSE TextValue(SubSeq(s, 1, Len(s) - 1)) * 10 + DigitValue(s[Len(s)])

\* A dotted quad: four numbers from 0 to 255 with dots between them.
IsDottedQuad(s) ==
    LET parts == SplitDots(s)
    IN  /\ Len(parts) = 4
        /\ \A k \in 1..4 :
              /\ parts[k] # <<>>
              /\ \A j \in 1..Len(parts[k]) : IsDigit(parts[k][j])
              /\ TextValue(parts[k]) \in 0..255

\* A threshold (in hundredths) within [0, 1].
InUnitInterval(x) == x # <<>> /\ x[1] \in 0..100

\* C19: ConfiguracionForm calls onSubmit only with values whose nombre has at
\* least 3 characters, whose ip_camara is a dotted quad with every octet in
\* 0..255, whose umbral_confianza and umbral_iou are within [0, 1] and whose
\* configuracion_robustez is original, moderada, permisiva or ultra_permisiva.
C19_ConfiguracionGate ==
    (formulario = "configuracion" /\ enviado # Null) =>
        LET v == enviado[1]
        IN  /\ Len(v.nombre) >= 3
            /\ IsDottedQuad(v.ip_camara)
            /\ InUnitInterval(v.umbral_confianza)
            /\ InUnitInterval(v.umbral_iou)
            /\ v.configuracion_robustez \in
                  {"original", "moderada", "permisiva", "ultra_permisiva"}

\* C19 witness: onSubmit was called with values at the edge of what the
\* schema lets through: a camera at 172.16.1.255 and a confidence threshold
\* of 1.
C19_Witness ==
    /\ formulario = "configuracion" /\ enviado # Null
    /\ enviado[1].ip_camara =
          <<"1", "7", "2", ".", "1", "6", ".", "1", ".", "2", "5", "5">>
    /\ enviado[1].umbral_confianza = <<100>>
    /\ enviado[1].umbral_iou = <<0>>

\* C20: UsuarioForm calls the save handler, when creating, only with a
\* password that is not empty and a confirmPassword equal to it, and when
\* editing only with an empty password or a confirmPassword equal to the
\* password; an edit whose other fields are valid is accepted with an empty
\* password whatever confirmPassword holds, and with a password that
\* confirmPassword equals.
C20_PasswordRule ==
    /\ []((formulario = "usuario" /\ enviado # Null) =>
            LET v == enviado[1]
            IN  IF isEdit
                THEN v.password # <<>> => v.confirmPassword = v.password
                ELSE v.password # <<>> /\ v.confirmPassword = v.password)
    /\ [][(/\ HandleSubmit /\ formulario = "usuario" /\ isEdit
           /\ BaseValid(valores)
           /\ valores.password = <<>> \/ valores.confirmPassword = valores.password)
             => enviado' = <<valores>>]_allVars

\* C20 witness: an edit was saved with the password left empty and something
\* typed in confirmPassword.
C20_Witness ==
    /\ formulario = "usuario" /\ isEdit /\ enviado # Null
    /\ enviado[1].password = <<>> /\ enviado[1].confirmPassword = <<"x">>

\* ---------------------------------------------------- session claims, again
\* C22: an interceptor run that finds an access token and an expiry stored,
\* with the expiry one minute or more away, makes no refresh call, sends its
\* request with 'Bearer <stored access token>' and leaves localStorage as it
\* is; a run that finds no access token or no expiry stored makes no refresh
\* call either, adds no header (the request goes with what the instance
\* defaults carry) and changes nothing.
C22_ValidTokenPath ==
    [][\A i \in Slots : InterceptorRan(i) =>
          /\ (/\ Has(storage, "accessToken") /\ Has(storage, "accessTokenExp")
              /\ ~ExpiryWithinMinute)
                => /\ ~RefreshCalled(i) /\ Sent(i)
                   /\ reqs'[i].hdr = <<"Bearer", storage["accessToken"]>>
                   /\ storage' = storage
          /\ (~Has(storage, "accessToken") \/ ~Has(storage, "accessTokenExp"))
                => /\ ~RefreshCalled(i) /\ Sent(i)
                   /\ reqs'[i].hdr = defaultsAuth
                   /\ storage' = storage /\ defaultsAuth' = defaultsAuth]_vars

\* C22 witness: with exactly one minute left on the stored token, a request
\* of a page is on the network with that token and no refresh was made.
C22_Witness ==
    /\ AllTokensStored(storage) /\ lastRefresh = "none"
    /\ ParseInt(storage["accessTokenExp"]) * 1000 = now + 60000
    /\ \E i \in Slots :
          /\ reqs[i].kind = "data" /\ reqs[i].phase = "net" /\ reqs[i].stack = <<>>
          /\ reqs[i].hdr = <<"Bearer", storage["accessToken"]>>

\* C23: the body the Users page sends to createUsuario / updateUsuario never
\* has a confirmPassword, and when a user is edited with the password field
\* left empty it has no password key either.
C23_SavePayload ==
    (formulario = "usuario" /\ cuerpo # Null) =>
        /\ "confirmPassword" \notin DOMAIN cuerpo[1]
        /\ (isEdit /\ enviado[1].password = <<>>) => "password" \notin DOMAIN cuerpo[1]

\* C23 witness: an edit saved with the password empty and a confirmPassword
\* typed: the body holds the four other fields only.
C23_Witness ==
    /\ formulario = "usuario" /\ isEdit /\ cuerpo # Null
    /\ enviado[1].password = <<>> /\ enviado[1].confirmPassword # <<>>
    /\ DOMAIN cuerpo[1] = {"username", "email", "name", "rol"}

\* The tab holds no session: mounted, no default header, no user.  After the
\* mount effect this is the state logout() leaves, and only a login ends it
\* (a tab that never held a session starts from an empty localStorage).
LoggedOut == effectRun /\ ~init /\ defaultsAuth = Null /\ user = Null

\* C24: from the return of logout() to the next successful login,
\* localStorage holds none of accessToken, refreshToken, accessTokenExp, also
\* when a refresh exchange started before the logout is answered afterwards.
C24_LogoutStaysLoggedOut == LoggedOut => NoTokensStored(storage)

\* C25: whenever localStorage holds no accessToken the default Authorization
\* header of the HTTP client is absent: every step of this tab (session
\* restore, login, logout, refresh, succeeded or failed) that takes the
\* accessToken out of localStorage leaves the client without the header.
C25_HeaderFollowsStorage ==
    [][(/\ Has(storage, "accessToken") /\ ~Has(storage', "accessToken")
        /\ ~OtherTabLogout)
          => defaultsAuth' = Null]_vars

\* login() rejects in this step: its token exchange or its profile fetch,
\* the request of slot i, failed.
LoginRejects(i) ==
    /\ reqs[i].kind \in {"token", "me_login"} /\ reqs[i].stack = <<>>
    /\ reqs[i].phase = "net" /\ reqs'[i] = Idle
    /\ ~\E p \in Profiles : LoginSucceeded(i, p)

\* C26: whenever login() rejects, it leaves localStorage and the default
\* Authorization header as they were when it was called (it has stored no
\* tokens and set no header, and the rejection writes nothing): the tokens of
\* a failed login are not left stored.
C26_NoPartialSession ==
    [][\A i \in Slots : LoginRejects(i) =>
          /\ ~reqs[i].wrote
          /\ storage' = storage /\ defaultsAuth' = defaultsAuth]_vars

\* ------------------------------------------------------------ initialization
\* A request of slot i that is on the network is answered, with success or
\* with an error.
Answered(i) ==
    \/ \E a \in AccessTokens : RefreshSucceeded(i, a)
    \/ RefreshRejected(i)
    \/ \E p \in Profiles : RestoreSucceeded(i, p)
    \/ RestoreRejected(i)
    \/ \E a \in AccessTokens, r \in RefreshTokens : TokenSucceeded(i, a, r)
    \/ LoginRejected(i)
    \/ \E p \in Profiles : LoginSucceeded(i, p)
    \/ DataDone(i)

\* The browser runs the mount effect and every pending promise continuation,
\* and every request that reaches the network is answered.  Nothing is
\* assumed of the user, the clock or the other tabs.
Fairness ==
    /\ WF_allVars(RestoreSession /\ SessionStep)
    /\ \A i \in Slots :
          /\ WF_allVars(Interceptor(i) /\ SessionStep)
          /\ WF_allVars(Answered(i) /\ SessionStep)

LiveSpec == Init /\ [][Next]_allVars /\ Fairness

Intervals == {DefaultInterval, 500}

\* What the server answers a preview request with: a frame, a body without
\* preview_data, or an error with or without a message of its own.
PreviewAnswers == {[ok |-> TRUE, preview_data |-> <<"jpeg">>],
                   [ok |-> TRUE, preview_data |-> Null],
                   [ok |-> FALSE, error |-> <<"Camara no disponible">>],
                   [ok |-> FALSE, error |-> Null]}

\* Cleanup that leaves the timer running.
CleanupKeepsTimer(ref, running) == running

\* The effect's cleanup (lines 67-71): the timer of intervalRef.current is
\* cleared; the ref keeps its id.
Cleanup(ref, running) ==
    IF ref # Null THEN running \ {ref[1]} ELSE running

\* The parent renders CameraPreview with other props.  React runs the pending
\* effects of a render before it renders again.
SetProps(active, interval) ==
    /\ mounted /\ ~effectPending
    /\ <<active, interval>> # <<isActive, refreshInterval>>
    /\ active => nextTimer <= MaxTimers
    /\ isActive' = active
    /\ refreshInterval' = interval
    /\ effectPending' = TRUE
    /\ UNCHANGED <<mounted, intervalRef, timers, nextTimer, previewData,
                   previewLoading, previewError, isStreaming, fetches>>
    /\ UNCHANGED <<vars, pageVars, formVars>>

\* The parent removes CameraPreview.
Unmount ==
    /\ mounted /\ ~effectPending
    /\ mounted' = FALSE
    /\ effectPending' = TRUE
    /\ UNCHANGED <<isActive, refreshInterval, intervalRef, timers, nextTimer,
                   previewData, previewLoading, previewError, isStreaming,
                   fetches>>
    /\ UNCHANGED <<vars, pageVars, formVars>>

\* React runs the cleanup of the last effect and, unless the component was
\* removed, the effect (lines 46-72).  When active the effect calls
\* fetchPreview, whose isActive is that of this render, and starts a timer;
\* when not it clears the timer of the ref and blanks the preview.
RunEffect ==
    /\ effectPending
    /\ effectPending' = FALSE
    /\ IF ~mounted
       THEN /\ timers' = Cleanup(intervalRef, timers)
            /\ UNCHANGED <<intervalRef, nextTimer, previewData, previewLoading,
                           previewError, isStreaming, fetches>>
       ELSE IF isActive
       THEN /\ previewLoading' = TRUE
            /\ previewError' = Null
            /\ fetches' = [fetches EXCEPT !.effect = @ + 1]
            /\ intervalRef' = <<nextTimer>>
            /\ timers' = Cleanup(intervalRef, timers) \cup {nextTimer}
            /\ nextTimer' = nextTimer + 1
            /\ UNCHANGED <<previewData, isStreaming>>
       ELSE /\ timers' = Cleanup(intervalRef, timers)
                           \ (IF intervalRef # Null THEN {intervalRef[1]} ELSE {})
            /\ intervalRef' = Null
            /\ previewData' = Null
            /\ isStreaming' = FALSE
            /\ previewError' = Null
            /\ UNCHANGED <<nextTimer, previewLoading, fetches>>
    /\ UNCHANGED <<mounted, isActive, refreshInterval>>
    /\ UNCHANGED <<vars, pageVars, formVars>>

\* A running timer fires and calls the fetchPreview of the render that started
\* it, one with isActive true (lines 26-30).  A state setter of a component
\* that was removed does nothing.
TimerFires(t) ==
    /\ t \in timers
    /\ fetches.timer < MaxFetch
    /\ previewError' = IF mounted THEN Null ELSE previewError
    /\ fetches' = [fetches EXCEPT !.timer = @ + 1]
    /\ UNCHANGED <<mounted, isActive, refreshInterval, effectPending,
                   intervalRef, timers, nextTimer, previewData, previewLoading,
                   isStreaming>>
    /\ UNCHANGED <<vars, pageVars, formVars>>

\* A preview request is answered (lines 30-43); the one the effect made also
\* ends the loading state (line 50).
PreviewAnswered(by, answer) ==
    /\ fetches[by] > 0
    /\ fetches' = [fetches EXCEPT ![by] = @ - 1]
    /\ IF ~mounted
       THEN UNCHANGED <<previewData, isStreaming, previewError, previewLoading>>
       ELSE /\ IF answer.ok /\ answer.preview_data # Null
               THEN /\ previewData' = answer.preview_data
                    /\ isStreaming' = TRUE
                    /\ UNCHANGED previewError
               ELSE /\ previewError' =
                          IF answer.ok THEN <<"No se pudo obtener la previsualizacion">>
                          ELSE IF answer.error # Null THEN answer.error
                          ELSE <<"Error obteniendo previsualizacion">>
                    /\ isStreaming' = FALSE
                    /\ UNCHANGED previewData
            /\ previewLoading' = IF by = "effect" THEN FALSE ELSE previewLoading
    /\ UNCHANGED <<mounted, isActive, refreshInterval, effectPending,
                   intervalRef, timers, nextTimer>>
    /\ UNCHANGED <<vars, pageVars, formVars>>

\* CameraPreview just mounted by a page of the signed-in session, active or not.
CameraInit ==
    /\ mounted = TRUE
    /\ isActive \in BOOLEAN
    /\ refreshInterval = DefaultInterval
    /\ effectPending = TRUE
    /\ intervalRef = Null
    /\ timers = {}
    /\ nextTimer = 1
    /\ previewData = Null
    /\ previewLoading = FALSE
    /\ previewError = Null
    /\ isStreaming = FALSE
    /\ fetches = [effect |-> 0, timer |-> 0]
    /\ page = "analisis"
    /\ items = {}
    /\ sistema = [inicializado |-> TRUE, configuracion_activa |-> TRUE]
    /\ resultados = 0
    /\ rows = {}
    /\ form = FormClosed
    /\ swal = NoSwal
    /\ calls = [i \in CallSlots |-> NoCall]
    /\ estadoSistema = Null
    /\ analisisRecientes = 0
    /\ estadisticas = Null
    /\ loading = FALSE
    /\ procesando = FALSE
    /\ roles = Null
    /\ rolesFetch = "none"
    /\ SignedIn /\ FormsClosed

CameraNext ==
    \/ \E active \in BOOLEAN, interval \in Intervals : SetProps(active, interval)
    \/ Unmount
    \/ RunEffect
    \/ \E t \in timers : TimerFires(t)
    \/ \E by \in {"effect", "timer"}, answer \in PreviewAnswers :
          PreviewAnswered(by, answer)

CameraSpec == CameraInit /\ [][CameraNext]_allVars

\* The preview is switched off or removed, and React has run the effect
\* cleanup that follows.
Deactivated == ~effectPending /\ (~isActive \/ ~mounted)

\* C21: once isActive is false or the component is removed (and the cleanup
\* has run) no interval timer is running and no timer-driven preview request
\* is made; at no time, across activations, deactivations and changes of
\* refreshInterval, is more than one interval timer running.
C21_OneTimerCleared ==
    /\ [](Cardinality(timers) <= 1 /\ (Deactivated => timers = {}))
    /\ [][Deactivated => fetches'.timer <= fetches.timer]_camVars

\* The preview was activated, had its interval changed, fetched on a timer
\* tick and was switched off, its timer gone.
C21_Witness ==
    /\ mounted /\ Deactivated /\ timers = {}
    /\ refreshInterval # DefaultInterval
    /\ nextTimer > 2 /\ fetches.timer > 0

\* C28: once isActive is false and the deactivation effect has run,
\* previewData stays null and isStreaming stays false until the next
\* activation, whatever request answers in between.
C28_StaysBlank ==
    (mounted /\ ~isActive /\ ~effectPending)
        => previewData = Null /\ ~isStreaming

\* C29: on the Users, Roles and Configurations pages the answer of a list
\* load never overwrites the rows of a load made after it: when the answer of
\* a load arrives after a later load has been answered and shown, the rows
\* stay.
C29_LatestLoadWins ==
    [][\A i \in CallSlots :
          (/\ calls[i].op = "list" /\ Resolved(calls[i]) /\ calls[i].overtaken
           /\ calls'[i] = NoCall)
             => rows' = rows]_allVars

\* C30: on the Users page the rows displayed contain no user whose
\* rol_nombre is Super Administrador, the roles the user form offers contain
\* no role named Super Administrador, and the form offers the empty list when
\* its roles request failed.
C30_SuperAdminHidden ==
    page = "usuarios" =>
        /\ \A u \in rows : u.rol_nombre # "Super Administrador"
        /\ roles # Null => \A r \in roles[1] : r.rol_nombre # "Super Administrador"
        /\ rolesFetch = "failed" => roles = <<{}>>

\* C30 witness: the server holds the Super Administrador and another user, the
\* load has been shown without the former, and the form opened on the latter
\* offers the one role that is not Super Administrador.
C30_Witness ==
    /\ page = "usuarios" /\ calls = [i \in CallSlots |-> NoCall]
    /\ items = {SeedAdmin, Item(1, "Operador", FALSE)}
    /\ rows = {Item(1, "Operador", FALSE)}
    /\ form = [open |-> TRUE, editing |-> 1]
    /\ rolesFetch = "ok"
    /\ roles = <<{[id |-> 2, rol_nombre |-> "Operador"]}>>

====
